---- MODULE Spec2Model ----
(***************************************************************************)
(* A model of the .dez extractor of mapping_whisperer:                     *)
(* utils/dez_parser.py (resolve_defaults, parse_dez_file).                 *)
(*                                                                         *)
(* Encoding of values.                                                     *)
(*   - A text on which the code works character by character (ids, names,  *)
(*     datatypes, property tags) is a tuple of one-character strings.      *)
(*   - A text the code only copies (descriptions, property values, default *)
(*     values, key roles) is a TLA+ string.                                *)
(*   - A Python value that may be None is None == <<>> or Str(t) == <<t>>. *)
(*   - A child element of the document is Absent == <<>> or Elem(t) ==     *)
(*     <<t>>, t its text (empty when the element holds no text).           *)
(*   - A Python dict is a function; d[k] on a missing key is a KeyError.   *)
(*   - An operator that may raise returns [ok |-> BOOLEAN, val |-> ...].   *)
(***************************************************************************)
EXTENDS Integers, Sequences, FiniteSets, TLC

None == <<>>
Str(t) == <<t>>
Absent == <<>>
Elem(t) == <<t>>

IsNone(v) == Len(v) = 0

\* bool(v) of a Python str-or-None holding a character text
Truthy(v) == Len(v) = 1 /\ Len(v[1]) > 0

Ok(v) == [ok |-> TRUE, val |-> v]
Raised == [ok |-> FALSE, val |-> <<>>]

EmptyDict == <<>>

\* dict.get(k, default)
DictGet(d, k, default) == IF k \in DOMAIN d THEN d[k] ELSE default

\* d[k] = v
DictSet(d, k, v) == [x \in (DOMAIN d) \cup {k} |-> IF x = k THEN v ELSE d[x]]

(***************************************************************************)
(* str methods                                                             *)
(***************************************************************************)
UpperCase == <<"A", "B", "C", "D", "E", "F", "G", "H", "I", "J", "K", "L", "M", "N", "O", "P", "Q", "R", "S", "T", "U", "V", "W", "X", "Y", "Z">>
LowerCase == <<"a", "b", "c", "d", "e", "f", "g", "h", "i", "j", "k", "l", "m", "n", "o", "p", "q", "r", "s", "t", "u", "v", "w", "x", "y", "z">>

LowerChar(c) ==
    IF \E i \in 1..Len(UpperCase) : UpperCase[i] = c
    THEN LowerCase[CHOOSE i \in 1..Len(UpperCase) : UpperCase[i] = c]
    ELSE c

UpperChar(c) ==
    IF \E i \in 1..Len(LowerCase) : LowerCase[i] = c
    THEN UpperCase[CHOOSE i \in 1..Len(LowerCase) : LowerCase[i] = c]
    ELSE c

\* t.lower()
Lower(t) == [i \in 1..Len(t) |-> LowerChar(t[i])]

\* t.upper()
Upper(t) == [i \in 1..Len(t) |-> UpperChar(t[i])]

IsSpace(c) == c \in {" ", "\t", "\n"}

RECURSIVE LStrip(_)
LStrip(t) == IF Len(t) > 0 /\ IsSpace(t[1]) THEN LStrip(Tail(t)) ELSE t

RECURSIVE RStrip(_)
RStrip(t) ==
    IF Len(t) > 0 /\ IsSpace(t[Len(t)]) THEN RStrip(SubSeq(t, 1, Len(t) - 1)) ELSE t

\* t.strip()
Strip(t) == RStrip(LStrip(t))

\* sub in t
Contains(sub, t) ==
    \E i \in 0..(Len(t) - Len(sub)) : SubSeq(t, i + 1, i + Len(sub)) = sub

\* t.startswith(p)
StartsWith(t, p) == Len(t) >= Len(p) /\ SubSeq(t, 1, Len(p)) = p

\* t[n:]
SliceFrom(t, n) == SubSeq(t, n + 1, Len(t))

\* ", ".join(list) of copied texts
RECURSIVE Join(_)
Join(list) ==
    IF Len(list) = 0 THEN ""
    ELSE IF Len(list) = 1 THEN list[1]
    ELSE list[1] \o ", " \o Join(Tail(list))

(***************************************************************************)
(* ElementTree                                                             *)
(***************************************************************************)
\* element.findtext(path, default): the default when no element matches,
\* the text of the first match otherwise ("" when it holds no text)
FindText(el, default) == IF el = Absent THEN default ELSE Str(el[1])

\* element.findtext(path): default None
FindTextNoDefault(el) == FindText(el, None)

\* element.text of an element holding a character text: None when empty
TextOf(el) == IF Len(el[1]) = 0 THEN None ELSE Str(el[1])

\* udp.text or "" of a property whose value is a copied text
TextOrEmpty(v) == IF IsNone(v) THEN "" ELSE v[1]

(***************************************************************************)
(* DEFAULTS and resolve_defaults                                           *)
(***************************************************************************)
K_TIMESTAMP_Start == <<"T", "I", "M", "E", "S", "T", "A", "M", "P", "-", "S", "t", "a", "r", "t">>
K_TIMESTAMP_End == <<"T", "I", "M", "E", "S", "T", "A", "M", "P", "-", "E", "n", "d">>
K_TIMESTAMP == <<"T", "I", "M", "E", "S", "T", "A", "M", "P">>
K_DATETIME == <<"D", "A", "T", "E", "T", "I", "M", "E">>
K_DATE == <<"D", "A", "T", "E">>
K_INT64 == <<"I", "N", "T", "6", "4">>
K_STRING == <<"S", "T", "R", "I", "N", "G">>
K_BOOL == <<"B", "O", "O", "L">>
K_NUMERIC == <<"N", "U", "M", "E", "R", "I", "C">>
K_FLOAT64 == <<"F", "L", "O", "A", "T", "6", "4">>

L_effective_start == <<"e", "f", "f", "e", "c", "t", "i", "v", "e", "_", "s", "t", "a", "r", "t">>
L_effective_end == <<"e", "f", "f", "e", "c", "t", "i", "v", "e", "_", "e", "n", "d">>
L_source_table == <<"s", "o", "u", "r", "c", "e", "_", "t", "a", "b", "l", "e">>
L_source_column == <<"s", "o", "u", "r", "c", "e", "_", "c", "o", "l", "u", "m", "n">>
L_partitioning == <<"p", "a", "r", "t", "i", "t", "i", "o", "n", "i", "n", "g">>
L_clustering == <<"c", "l", "u", "s", "t", "e", "r", "i", "n", "g">>

\* one entry of DEFAULTS
DefaultsEntry(v, m1, m2) ==
    [k \in {"Default Values", "Default Records", "Default Records (2)"} |->
        IF k = "Default Values" THEN v
        ELSE IF k = "Default Records" THEN m1 ELSE m2]

DEFAULTS ==
    [k \in {K_TIMESTAMP_Start, K_TIMESTAMP_End, K_TIMESTAMP, K_DATETIME, K_DATE,
            K_INT64, K_STRING, K_BOOL, K_NUMERIC, K_FLOAT64} |->
        CASE k = K_TIMESTAMP_Start ->
                DefaultsEntry("\"1900-01-01 00:00:00.0000\"",
                              "\"1900-01-01 00:00:00.0000\"",
                              "\"1900-01-01 00:00:00.0000\"")
          [] k = K_TIMESTAMP_End ->
                DefaultsEntry("\"9999-12-31 23:59:59.9999\"",
                              "\"9999-12-31 23:59:59.9999\"",
                              "\"9999-12-31 23:59:59.9999\"")
          [] k \in {K_TIMESTAMP, K_DATETIME} ->
                DefaultsEntry("\"1900-01-01 00:00:00.0000\"",
                              "\"1900-01-01 00:00:00.0000\"",
                              "\"9999-12-31 23:59:59.9999\"")
          [] k = K_DATE ->
                DefaultsEntry("\"1900-01-01\"", "\"1900-01-01\"", "\"9999-12-31\"")
          [] k = K_INT64 -> DefaultsEntry("-1", "-1", "-2")
          [] k = K_STRING -> DefaultsEntry("\"\"", "\"\"", "\"\"")
          [] k = K_BOOL -> DefaultsEntry("NULL", "NULL", "NULL")
          [] k = K_NUMERIC -> DefaultsEntry("0", "0", "0")
          [] k = K_FLOAT64 -> DefaultsEntry("\"0.0\"", "\"0.0\"", "\"0.0\"")]

\* a fallback dict holding one of the three keys
NoDefaults_Partial == [k \in {"Default Values"} |-> ""]

\* the dict resolve_defaults falls back to
NoDefaults == DefaultsEntry("", "", "")

\* the key looked up with the column name compared as written
DefaultsKey_CaseSensitive(col_name, dtype) ==
    IF Contains(L_effective_start, col_name) THEN K_TIMESTAMP_Start
    ELSE IF Contains(L_effective_end, col_name) THEN K_TIMESTAMP_End
    ELSE Upper(dtype)

\* the key resolve_defaults looks up
DefaultsKey(col_name, dtype) ==
    LET lower == Lower(col_name) IN
    IF Contains(L_effective_start, lower) THEN K_TIMESTAMP_Start
    ELSE IF Contains(L_effective_end, lower) THEN K_TIMESTAMP_End
    ELSE Upper(dtype)

\* resolve_defaults(col_name, dtype); None.upper() and None.lower() raise
resolve_defaults(col_name, dtype) ==
    IF IsNone(dtype) \/ IsNone(col_name) THEN Raised
    ELSE Ok(DictGet(DEFAULTS, DefaultsKey(col_name[1], dtype[1]), NoDefaults))

(***************************************************************************)
(* parse_dez_file: the document                                            *)
(*   doc.ents : the ENT elements under ENTITIES, in document order         *)
(*     ID, NAME, DESC        child elements                                *)
(*     PKCON                 the PKCON/ATTRIBUTEIDS/ATTRIBUTEID elements   *)
(*     ATTRIBUTES            the ATTRIBUTES/ATTR elements, each with       *)
(*                           ID, NAME, DESC, DT (DT/DTLISTNAME),           *)
(*                           NNCON (NNCON/VALUE), USERDEFPROPS             *)
(*     USERDEFPROPS, OPTIONS entity-level properties and table options     *)
(*                           (parse_dez_file reads neither)                *)
(*   doc.rels : the REL elements under RELATIONSHIPS, in document order    *)
(*     PARENTOBJECTID, CHILDOBJECTID   child elements                      *)
(*     PAIRS                 the FOREIGNKEYID child of each PAIRS/PAIR     *)
(*   A property is [tag |-> character text, text |-> None or Str(value)].  *)
(***************************************************************************)

\* lines 135-139: id2name, later declarations of an id replacing earlier ones
RECURSIVE BuildId2Name(_, _)
BuildId2Name(ents, acc) ==
    IF Len(ents) = 0 THEN acc
    ELSE LET ent == Head(ents)
             id == FindTextNoDefault(ent.ID)
             nm == FindTextNoDefault(ent.NAME)
         IN BuildId2Name(Tail(ents),
                IF Truthy(id) /\ Truthy(nm) THEN DictSet(acc, id, nm) ELSE acc)

\* the pairs written only for attributes the child's map does not hold yet
RECURSIVE AddPairs_KeepFirst(_, _, _)
AddPairs_KeepFirst(fk_map, pairs, parent_name) ==
    IF Len(pairs) = 0 THEN fk_map
    ELSE LET fk_attr_id == FindTextNoDefault(Head(pairs))
         IN AddPairs_KeepFirst(IF Truthy(fk_attr_id) /\ fk_attr_id \notin DOMAIN fk_map
                               THEN DictSet(fk_map, fk_attr_id, parent_name)
                               ELSE fk_map,
                               Tail(pairs), parent_name)

\* lines 153-156: the pairs of one relationship written into the child's map
RECURSIVE AddPairs(_, _, _)
AddPairs(fk_map, pairs, parent_name) ==
    IF Len(pairs) = 0 THEN fk_map
    ELSE LET fk_attr_id == FindTextNoDefault(Head(pairs))
         IN AddPairs(IF Truthy(fk_attr_id)
                     THEN DictSet(fk_map, fk_attr_id, parent_name)
                     ELSE fk_map,
                     Tail(pairs), parent_name)

\* the skip without the test of the parent's name
SkipRel_ChildOnly(child_id, parent_name) == ~Truthy(child_id)

\* line 148: the relationship is skipped
SkipRel(child_id, parent_name) == ~Truthy(child_id) \/ ~Truthy(parent_name)

\* the loop body recording the parent's id instead of its name
IndexRel_ParentId(fk, rel, names) ==
    LET parent_id == FindText(rel.PARENTOBJECTID, Str(<<>>))
        child_id == FindText(rel.CHILDOBJECTID, Str(<<>>))
        parent_name == DictGet(names, parent_id, Str(<<>>))
    IN IF SkipRel(child_id, parent_name) THEN fk
       ELSE DictSet(fk, child_id,
                    AddPairs(DictGet(fk, child_id, EmptyDict), rel.PAIRS, parent_id))

\* lines 145-156: one iteration of the loop over the REL elements
IndexRel(fk, rel, names) ==
    LET parent_id == FindText(rel.PARENTOBJECTID, Str(<<>>))
        child_id == FindText(rel.CHILDOBJECTID, Str(<<>>))
        parent_name == DictGet(names, parent_id, Str(<<>>))
    IN IF SkipRel(child_id, parent_name) THEN fk
       ELSE DictSet(fk, child_id,
                    AddPairs(DictGet(fk, child_id, EmptyDict), rel.PAIRS, parent_name))

\* lines 167-171: pk_ids
PkIds(ent) ==
    {Str(Strip(ent.PKCON[i][1])) :
        i \in {j \in 1..Len(ent.PKCON) : ~IsNone(TextOf(ent.PKCON[j]))}}

\* key_type without the branch for an attribute that is both
KeyType_NoBoth(is_pk, is_fk) ==
    IF is_pk THEN "PRIMARY"
    ELSE IF is_fk THEN "FOREIGN"
    ELSE ""

\* lines 189-196: key_type
KeyType(is_pk, is_fk) ==
    IF is_pk /\ is_fk THEN "PRIMARY, FOREIGN"
    ELSE IF is_pk THEN "PRIMARY"
    ELSE IF is_fk THEN "FOREIGN"
    ELSE ""

\* sourced as the legacy script derives it: a primary key is derived too
Sourced_Legacy(is_pk, is_fk) == ~is_fk /\ ~is_pk

\* line 224: sourced
Sourced(is_pk, is_fk) == ~is_fk

\* line 199: ref_dim
RefDim(this_fk_map, aid) == DictGet(this_fk_map, aid, Str(<<>>))

\* lines 202-214: the loop over the attribute's properties
RECURSIVE ScanProps(_, _)
ScanProps(udps, acc) ==
    IF Len(udps) = 0 THEN acc
    ELSE LET udp == Head(udps)
             tag == Lower(SliceFrom(udp.tag, 4))
             txt == TextOrEmpty(udp.text)
         IN ScanProps(Tail(udps),
                IF StartsWith(tag, L_source_table)
                THEN [acc EXCEPT !.src_tables = Append(@, txt)]
                ELSE IF StartsWith(tag, L_source_column)
                THEN [acc EXCEPT !.src_cols = Append(@, txt)]
                ELSE IF tag = L_partitioning
                THEN [acc EXCEPT !.partitioning = txt]
                ELSE IF tag = L_clustering
                THEN [acc EXCEPT !.clustering = txt]
                ELSE acc)

NoProps == [src_tables |-> <<>>, src_cols |-> <<>>, partitioning |-> "", clustering |-> ""]

\* the lineage string of the last property alone
SrcTable_LastOnly(props) ==
    IF Len(props.src_tables) = 0 THEN "" ELSE props.src_tables[Len(props.src_tables)]

\* lines 226-227: the lineage strings of a field
SrcTable(props) == Join(props.src_tables)
SrcAttr(props) == Join(props.src_cols)

\* lines 233-234: the flags of a field
Clustering(props) == props.clustering
\* the partitioning slot filled from the clustering text
Partitioning_Swapped(props) == props.clustering
Partitioning(props) == props.partitioning

\* the datatype read with an empty fallback
ReadDType_NoFallback(attr) == FindText(attr.DT, Str(<<>>))

\* line 183: the datatype read
ReadDType(attr) == FindText(attr.DT, Str(K_STRING))

\* lines 180-235: one attribute; defaults[...] on a missing key raises
\* a constraint read as set unless it says "0"
NotNull_UnlessZero(attr) == FindTextNoDefault(attr.NNCON) # Str(<<"0">>)

\* line 184: the nullability constraint read
NotNull(attr) == FindTextNoDefault(attr.NNCON) = Str(<<"1">>)

ParseAttr(attr, pk_ids, this_fk_map) ==
    LET aid == FindText(attr.ID, Str(<<>>))
        name == FindText(attr.NAME, Str(<<>>))
        desc == FindText(attr.DESC, Str(""))
        dtype == ReadDType(attr)
        notnull == NotNull(attr)
        is_pk == aid \in pk_ids
        is_fk == aid \in DOMAIN this_fk_map
        props == ScanProps(attr.USERDEFPROPS, NoProps)
        defaults == resolve_defaults(name, dtype)
    IN IF ~defaults.ok THEN Raised
       ELSE IF ~({"Default Values", "Default Records", "Default Records (2)"}
                    \subseteq DOMAIN defaults.val) THEN Raised
       ELSE Ok([name |-> name,
                description |-> desc,
                datatype |-> dtype,
                sourced |-> Sourced(is_pk, is_fk),
                not_null |-> notnull,
                src_table |-> SrcTable(props),
                src_attr |-> SrcAttr(props),
                def_val |-> defaults.val["Default Values"],
                def_m1 |-> defaults.val["Default Records"],
                def_m2 |-> defaults.val["Default Records (2)"],
                key_type |-> KeyType(is_pk, is_fk),
                referenced_dimension |-> RefDim(this_fk_map, aid),
                clustering |-> Clustering(props),
                partitioning |-> Partitioning(props)])

\* the loop putting each field in front of the earlier ones
RECURSIVE ParseFields_Prepend(_, _, _, _)
ParseFields_Prepend(attrs, pk_ids, this_fk_map, fields) ==
    IF Len(attrs) = 0 THEN Ok(fields)
    ELSE LET f == ParseAttr(Head(attrs), pk_ids, this_fk_map)
         IN IF ~f.ok THEN Raised
            ELSE ParseFields_Prepend(Tail(attrs), pk_ids, this_fk_map, <<f.val>> \o fields)

\* lines 176-235: the loop over the ATTR elements of one entity
RECURSIVE ParseFields(_, _, _, _)
ParseFields(attrs, pk_ids, this_fk_map, fields) ==
    IF Len(attrs) = 0 THEN Ok(fields)
    ELSE LET f == ParseAttr(Head(attrs), pk_ids, this_fk_map)
         IN IF ~f.ok THEN Raised
            ELSE ParseFields(Tail(attrs), pk_ids, this_fk_map, Append(fields, f.val))

\* an entity dict with a sources key
EntityDict_WithSources(ent_name, ent_desc, fields) ==
    [name |-> ent_name, description |-> ent_desc, fields |-> fields, sources |-> <<>>]

\* lines 238-242: the entity dict
EntityDict(ent_name, ent_desc, fields) ==
    [name |-> ent_name, description |-> ent_desc, fields |-> fields]

\* a foreign-key map shared by all the entities
ThisFkMap_AnyEntity(fk, ent_id) ==
    [a \in UNION {DOMAIN fk[c] : c \in DOMAIN fk} |->
        fk[CHOOSE c \in DOMAIN fk : a \in DOMAIN fk[c]][a]]

\* line 174: this_fk_map = fk_for_entity.get(ent_id, {})
ThisFkMap(fk, ent_id) == DictGet(fk, ent_id, EmptyDict)

\* lines 162-242: one iteration of the loop over the ENT elements
ParseEntity(ent, fk) ==
    LET ent_id == FindText(ent.ID, Str(<<>>))
        ent_name == FindTextNoDefault(ent.NAME)
        ent_desc == FindText(ent.DESC, Str(""))
        this_fk_map == ThisFkMap(fk, ent_id)
        fields == ParseFields(ent.ATTRIBUTES, PkIds(ent), this_fk_map, <<>>)
    IN IF ~fields.ok THEN Raised
       ELSE Ok(EntityDict(ent_name, ent_desc, fields.val))

(***************************************************************************)
(* The documents checked.  KeyDocs vary the entity ids and names, the      *)
(* primary-key constraints and the relationships; FieldDocs vary the       *)
(* content of one attribute and the entity-level annotations.              *)
(***************************************************************************)
MaxRels == 2
MaxCalls == 2

ID_1 == <<"1">>
ID_2 == <<"2">>
ID_9 == <<"9">>
A_a == <<"a">>
A_b == <<"b">>
A_b_padded == <<" ", "b", "\n">>
V_1 == <<"1">>
V_0 == <<"0">>

N_balance == <<"b", "a", "l", "a", "n", "c", "e">>
N_effective_start_utc_timestamp == <<"e", "f", "f", "e", "c", "t", "i", "v", "e", "_", "s", "t", "a", "r", "t", "_", "u", "t", "c", "_", "t", "i", "m", "e", "s", "t", "a", "m", "p">>
N_Valid_Effective_END == <<"V", "a", "l", "i", "d", "_", "E", "f", "f", "e", "c", "t", "i", "v", "e", "_", "E", "N", "D">>
N_effective_end_effective_start == <<"e", "f", "f", "e", "c", "t", "i", "v", "e", "_", "e", "n", "d", "_", "e", "f", "f", "e", "c", "t", "i", "v", "e", "_", "s", "t", "a", "r", "t">>
N_event_ts == <<"e", "v", "e", "n", "t", "_", "t", "s">>
N_user_id == <<"u", "s", "e", "r", "_", "i", "d">>
N_Party == <<"P", "a", "r", "t", "y">>
N_Order == <<"O", "r", "d", "e", "r">>
N_party_id == <<"p", "a", "r", "t", "y", "_", "i", "d">>
N_order_id == <<"o", "r", "d", "e", "r", "_", "i", "d">>
D_int64 == <<"i", "n", "t", "6", "4">>
D_GEOGRAPHY == <<"G", "E", "O", "G", "R", "A", "P", "H", "Y">>
TAG_source_table_1 == <<"U", "D", "P", "_", "s", "o", "u", "r", "c", "e", "_", "t", "a", "b", "l", "e", "_", "1">>
TAG_source_column_1 == <<"U", "D", "P", "_", "s", "o", "u", "r", "c", "e", "_", "c", "o", "l", "u", "m", "n", "_", "1">>
TAG_source_table_2 == <<"U", "D", "P", "_", "s", "o", "u", "r", "c", "e", "_", "t", "a", "b", "l", "e", "_", "2">>
TAG_source_column_2 == <<"U", "D", "P", "_", "s", "o", "u", "r", "c", "e", "_", "c", "o", "l", "u", "m", "n", "_", "2">>
TAG_Partitioning == <<"U", "D", "P", "_", "P", "a", "r", "t", "i", "t", "i", "o", "n", "i", "n", "g">>
TAG_CLUSTERING == <<"U", "D", "P", "_", "C", "L", "U", "S", "T", "E", "R", "I", "N", "G">>
TAG_partitioning == <<"U", "D", "P", "_", "p", "a", "r", "t", "i", "t", "i", "o", "n", "i", "n", "g">>
TAG_1_source_table_1 == <<"U", "D", "P", "_", "1", "_", "s", "o", "u", "r", "c", "e", "_", "t", "a", "b", "l", "e", "_", "1">>
TAG_2_source_table_1 == <<"U", "D", "P", "_", "2", "_", "s", "o", "u", "r", "c", "e", "_", "t", "a", "b", "l", "e", "_", "1">>
TAG_1_source_database_1 == <<"U", "D", "P", "_", "1", "_", "s", "o", "u", "r", "c", "e", "_", "d", "a", "t", "a", "b", "a", "s", "e", "_", "1">>
TAG_3_source_column_1 == <<"U", "D", "P", "_", "3", "_", "s", "o", "u", "r", "c", "e", "_", "c", "o", "l", "u", "m", "n", "_", "1">>
TAG_5_source_table_2 == <<"U", "D", "P", "_", "5", "_", "s", "o", "u", "r", "c", "e", "_", "t", "a", "b", "l", "e", "_", "2">>
TAG_owner == <<"U", "D", "P", "_", "o", "w", "n", "e", "r">>
OPT_partition_cluster == <<"P", "A", "R", "T", "I", "T", "I", "O", "N", " ", "B", "Y", " ", "T", "I", "M", "E", "S", "T", "A", "M", "P", "_", "T", "R", "U", "N", "C", "(", "e", "v", "e", "n", "t", "_", "t", "s", ",", " ", "D", "A", "Y", ")", " ", "C", "L", "U", "S", "T", "E", "R", " ", "B", "Y", " ", "u", "s", "e", "r", "_", "i", "d", ",", " ", "e", "v", "e", "n", "t", "_", "t", "y", "p", "e">>

Prop(tag, text) == [tag |-> tag, text |-> text]

Attr(id, name, desc, dt, nn, udps) ==
    [ID |-> id, NAME |-> name, DESC |-> desc, DT |-> dt, NNCON |-> nn,
     USERDEFPROPS |-> udps]

Ent(id, name, desc, pk, attrs, udps, opts) ==
    [ID |-> id, NAME |-> name, DESC |-> desc, PKCON |-> pk, ATTRIBUTES |-> attrs,
     USERDEFPROPS |-> udps, OPTIONS |-> opts]

Rel(parent, child, pairs) ==
    [PARENTOBJECTID |-> parent, CHILDOBJECTID |-> child, PAIRS |-> pairs]

\* the attributes of the entities of KeyDocs
KeyAttrs ==
    <<Attr(Elem(A_a), Elem(N_party_id), Absent, Elem(K_INT64), Elem(V_1), <<>>),
      Attr(Elem(A_b), Elem(N_order_id), Absent, Elem(K_INT64), Absent, <<>>)>>

PkLists == {<<>>, <<Elem(A_a)>>, <<Elem(A_b_padded), Elem(<<>>)>>}

KeyEnts ==
    {<<Ent(Elem(ID_1), Elem(N_Party), Absent, pk1, KeyAttrs, <<>>, <<>>),
       Ent(idnm[1], idnm[2], Absent, pk2, KeyAttrs, <<>>, <<>>)>> :
        pk1 \in {<<>>, <<Elem(A_a)>>}, pk2 \in PkLists,
        idnm \in {<<Elem(ID_2), Elem(N_Order)>>, <<Elem(ID_2), Absent>>,
                  <<Absent, Elem(N_Order)>>}}

RelDecls ==
    {Rel(Elem(p), Elem(ID_1), <<Elem(A_a)>>) : p \in {ID_1, ID_2, ID_9}}
    \cup {Rel(Elem(ID_1), Elem(ID_2), <<Elem(A_a), Elem(A_b)>>),
          Rel(Elem(ID_2), Elem(ID_1), <<Absent, Elem(<<>>)>>),
          Rel(Absent, Elem(ID_1), <<Elem(A_a)>>),
          Rel(Elem(ID_1), Absent, <<Elem(A_a)>>)}

\* the lists of up to MaxRels different declarations
RelLists ==
    UNION {{rs \in [1..n -> RelDecls] : \A i, j \in 1..n : rs[i] = rs[j] => i = j} :
              n \in 0..MaxRels}

KeyDocs == {[ents |-> es, rels |-> rs] : es \in KeyEnts, rs \in RelLists}

FieldNames ==
    {Absent, Elem(N_balance), Elem(N_effective_start_utc_timestamp),
     Elem(N_Valid_Effective_END), Elem(N_effective_end_effective_start),
     Elem(N_event_ts), Elem(N_user_id)}

FieldTypes ==
    {Absent, Elem(<<>>), Elem(K_INT64), Elem(D_int64), Elem(D_GEOGRAPHY),
     Elem(K_TIMESTAMP), Elem(K_TIMESTAMP_Start), Elem(K_BOOL)}

FieldDescs == {Absent, Elem(""), Elem("Account balance")}

FieldNotNulls == {Absent, Elem(V_1), Elem(V_0)}

FieldProps ==
    {<<>>,
     <<Prop(TAG_source_table_1, Str("A")), Prop(TAG_source_column_1, Str("c1"))>>,
     <<Prop(TAG_source_table_1, Str("A")), Prop(TAG_source_column_1, Str("c1")),
       Prop(TAG_source_table_2, Str("B")), Prop(TAG_source_column_2, Str("c2"))>>,
     <<Prop(TAG_source_table_2, Str("B")), Prop(TAG_source_table_1, Str("A")),
       Prop(TAG_source_column_2, None)>>,
     <<Prop(TAG_Partitioning, Str("Y")), Prop(TAG_CLUSTERING, None),
       Prop(TAG_owner, Str("finance"))>>,
     <<Prop(TAG_1_source_table_1, Str("A")), Prop(TAG_partitioning, Str("event_ts")),
       Prop(TAG_partitioning, Str("Y")), Prop(TAG_CLUSTERING, Str("1"))>>}

\* entity-level annotations: [props, opts]
EntityNotes ==
    {[props |-> <<>>, opts |-> <<>>],
     [props |-> <<Prop(TAG_2_source_table_1, Str("A")),
                  Prop(TAG_1_source_database_1, Str("db1")),
                  Prop(TAG_3_source_column_1, Str("col1")),
                  Prop(TAG_5_source_table_2, Str("B")),
                  Prop(TAG_owner, Str("finance"))>>,
      opts |-> OPT_partition_cluster]}

FieldDocs ==
    {[ents |-> <<Ent(Elem(ID_1), Elem(N_Party), Elem("Parties"), <<>>,
                     <<Attr(Elem(A_a), nm, ds, dt, nn, ps)>>, note.props, note.opts)>>,
      rels |-> <<>>] :
        nm \in FieldNames, dt \in FieldTypes, ds \in {Absent}, nn \in {Absent},
        ps \in FieldProps, note \in EntityNotes}
    \cup
    {[ents |-> <<Ent(Elem(ID_1), Elem(N_Party), Elem("Parties"), <<>>,
                     <<Attr(Elem(A_a), Elem(N_balance), ds, dt, nn, <<>>)>>, <<>>, <<>>)>>,
      rels |-> <<>>] :
        dt \in FieldTypes, ds \in FieldDescs, nn \in FieldNotNulls}

Docs == KeyDocs \cup FieldDocs

(***************************************************************************)
(* parse_dez_file as a state machine: one action per statement group and   *)
(* per iteration of the loops over REL and ENT.                            *)
(***************************************************************************)
VARIABLES
    doc,            \* the document at filepath
    pc,             \* "id2name", "rels", "ents", "done" (returned), "raised"
    id2name,        \* line 135
    fk_for_entity,  \* line 143
    r,              \* position of the loop of line 144
    e,              \* position of the loop of line 161
    entities,       \* line 158
    call,           \* number of the running call of parse_dez_file(doc)
    first,          \* what the first call returned
    other,          \* the frame of a second invocation that is not running now
    template,       \* template_writer.py, the sheet of the workbook at template_path
    entity,         \* write_entity: the entity dict written
    ws,             \* write_entity line 105: the sheet in memory
    hdr_row,        \* write_entity line 112
    cmap,           \* write_entity line 113
    idx,            \* write_entity line 140: fields written so far
    wpc,            \* the position in write_entity
    err,            \* the exception write_entity raised
    out,            \* the sheet of the workbook saved at out_path
    choice,         \* convert_dez_to_xlsx.py line 76: the answer to the prompt
    selected,       \* convert_dez_to_xlsx.py lines 64-89
    exported,       \* the places in entities of those handed to write_entity, in order
    ent_at,         \* main lines 28, 34: the entities gone through
    mpc,            \* the position in __main__ and main
    ws_src,         \* copy_table: the source sheet
    ws_tgt,         \* copy_table: the target sheet
    src_header_row, \* copy_table: argument
    tgt_header_row, \* copy_table: argument
    src_cols,       \* helpers.py line 43
    tgt_cols,       \* helpers.py line 44
    tgt_given,      \* the target sheet as copy_table received it
    copied_rows,    \* helpers.py lines 46-47: row and copied_rows
    cpc,            \* the position in copy_table
    dictVersions,   \* DezignToMapping.py line 62: the keys, in insertion order
    dictDiagrams,   \* DezignToMapping.py line 65: the keys, in insertion order
    v_version,      \* DezignToMapping.py line 47
    v_diagram,      \* DezignToMapping.py line 48
    asked,          \* the answers read by input() so far
    lpc             \* the position in DezignToMapping.py

parserVars == <<doc, pc, id2name, fk_for_entity, r, e, entities, call, first, other>>
writerVars == <<template, entity, ws, hdr_row, cmap, idx, wpc, err, out>>
mainVars == <<choice, selected, exported, ent_at, mpc>>

copyVars ==
    <<ws_src, ws_tgt, src_header_row, tgt_header_row, src_cols, tgt_cols, tgt_given, copied_rows, cpc>>
legacyVars == <<dictVersions, dictDiagrams, v_version, v_diagram, asked, lpc>>
toolVars == <<copyVars, legacyVars>>

vars == <<parserVars, writerVars, mainVars, toolVars>>

\* write_entity is not running
WriterIdle ==
    /\ template = <<>>
    /\ entity = <<>>
    /\ ws = <<>>
    /\ hdr_row = 0
    /\ cmap = EmptyDict
    /\ idx = 0
    /\ wpc = "none"
    /\ err = <<>>
    /\ out = <<>>

\* the command line is not running
MainIdle ==
    /\ choice = <<>>
    /\ selected = <<>>
    /\ exported = <<>>
    /\ ent_at = 0
    /\ mpc = "none"

\* copy_table is not running
CopyIdle ==
    /\ ws_src = <<>>
    /\ ws_tgt = <<>>
    /\ src_header_row = 0
    /\ tgt_header_row = 0
    /\ src_cols = EmptyDict
    /\ tgt_cols = EmptyDict
    /\ tgt_given = <<>>
    /\ copied_rows = 0
    /\ cpc = "none"

\* DezignToMapping.py is not running
LegacyIdle ==
    /\ dictVersions = <<>>
    /\ dictDiagrams = <<>>
    /\ v_version = <<>>
    /\ v_diagram = <<>>
    /\ asked = 0
    /\ lpc = "none"

ToolsIdle == CopyIdle /\ LegacyIdle

\* lines 130-158: the locals of one invocation
Frame(d, at, names, fk, i, j, es) ==
    [doc |-> d, pc |-> at, id2name |-> names, fk_for_entity |-> fk,
     r |-> i, e |-> j, entities |-> es]

\* the frame of an invocation that has not begun
NewFrame(d) == Frame(d, "id2name", EmptyDict, EmptyDict, 0, 0, <<>>)

\* no second invocation
NoFrame == Frame([ents |-> <<>>, rels |-> <<>>], "none", EmptyDict, EmptyDict, 0, 0, <<>>)

Init ==
    /\ doc \in Docs
    /\ pc = "id2name"
    /\ id2name = EmptyDict
    /\ fk_for_entity = EmptyDict
    /\ r = 0
    /\ e = 0
    /\ entities = <<>>
    /\ call = 1
    /\ first = <<>>
    /\ other = NoFrame
    /\ WriterIdle
    /\ MainIdle
    /\ ToolsIdle

\* an index kept from the previous call
KeptFkForEntity == fk_for_entity

\* line 143: fk_for_entity = {}
NewFkForEntity == EmptyDict

\* a list kept from the previous call
KeptEntities == entities

\* line 158: entities = []
NewEntities == <<>>

\* lines 144-156: the loop over the REL elements
RECURSIVE IndexRels(_, _, _)
IndexRels(fk, rels, names) ==
    IF Len(rels) = 0 THEN fk
    ELSE IndexRels(IndexRel(fk, Head(rels), names), Tail(rels), names)

\* lines 161-242: the loop over the ENT elements
RECURSIVE ParseEntities(_, _, _)
ParseEntities(ents, fk, acc) ==
    IF Len(ents) = 0 THEN Ok(acc)
    ELSE LET res == ParseEntity(Head(ents), fk)
         IN IF ~res.ok THEN Raised
            ELSE ParseEntities(Tail(ents), fk, Append(acc, res.val))

\* lines 130-244: what one call returns for document d
parse_dez_file(d) ==
    LET names == BuildId2Name(d.ents, EmptyDict)
        fk == IndexRels(EmptyDict, d.rels, names)
    IN ParseEntities(d.ents, fk, <<>>)

\* lines 131-143
BuildMaps ==
    /\ pc = "id2name"
    /\ id2name' = BuildId2Name(doc.ents, EmptyDict)
    /\ fk_for_entity' = NewFkForEntity
    /\ r' = 1
    /\ pc' = "rels"
    /\ UNCHANGED <<doc, e, entities, call, first, other, writerVars, mainVars, toolVars>>

\* lines 144-156, one REL
NextRel ==
    /\ pc = "rels"
    /\ r <= Len(doc.rels)
    /\ fk_for_entity' = IndexRel(fk_for_entity, doc.rels[r], id2name)
    /\ r' = r + 1
    /\ UNCHANGED <<doc, pc, id2name, e, entities, call, first, other, writerVars, mainVars, toolVars>>

\* line 158, after the last REL
BeginEntities ==
    /\ pc = "rels"
    /\ r > Len(doc.rels)
    /\ entities' = NewEntities
    /\ e' = 1
    /\ pc' = "ents"
    /\ UNCHANGED <<doc, id2name, fk_for_entity, r, call, first, other, writerVars, mainVars, toolVars>>

\* lines 161-242, one ENT
NextEnt ==
    /\ pc = "ents"
    /\ e <= Len(doc.ents)
    /\ LET res == ParseEntity(doc.ents[e], fk_for_entity)
       IN IF res.ok
          THEN /\ entities' = Append(entities, res.val)
               /\ e' = e + 1
               /\ pc' = pc
          ELSE /\ pc' = "raised"
               /\ UNCHANGED <<entities, e, toolVars>>
    /\ UNCHANGED <<doc, id2name, fk_for_entity, r, call, first, other, writerVars, mainVars, toolVars>>

\* line 244
Return ==
    /\ pc = "ents"
    /\ e > Len(doc.ents)
    /\ pc' = "done"
    /\ first' = IF call = 1 THEN entities ELSE first
    /\ UNCHANGED <<doc, id2name, fk_for_entity, r, e, entities, call, other, writerVars, mainVars, toolVars>>

\* parse_dez_file is called again on the same document
CallAgain ==
    /\ pc = "done"
    /\ call < MaxCalls
    /\ call' = call + 1
    /\ pc' = "id2name"
    /\ UNCHANGED <<doc, id2name, fk_for_entity, r, e, entities, first, other, writerVars, mainVars, toolVars>>

Next == BuildMaps \/ NextRel \/ BeginEntities \/ NextEnt \/ Return \/ CallAgain

Spec == Init /\ [][Next]_vars

(***************************************************************************)
(* Two invocations on two documents: one after the other in the same       *)
(* frame, or interleaved, each in its own frame                            *)
(***************************************************************************)
\* the documents of the two invocations
PairEnts ==
    {<<Ent(Elem(ID_1), Elem(N_Party), Absent, <<Elem(A_a)>>, KeyAttrs, <<>>, <<>>),
       Ent(Elem(ID_2), nm2, Absent, <<Elem(A_b)>>, KeyAttrs, <<>>, <<>>)>> :
        nm2 \in {Elem(N_Order), Elem(N_Party)}}

PairRels ==
    {<<>>,
     <<Rel(Elem(ID_1), Elem(ID_2), <<Elem(A_a)>>)>>,
     <<Rel(Elem(ID_2), Elem(ID_1), <<Elem(A_b)>>)>>}

PairDocs == {[ents |-> es, rels |-> rs] : es \in PairEnts, rs \in PairRels}

InitPair ==
    /\ doc \in PairDocs
    /\ pc = "id2name"
    /\ id2name = EmptyDict
    /\ fk_for_entity = EmptyDict
    /\ r = 0
    /\ e = 0
    /\ entities = <<>>
    /\ call = 1
    /\ first = <<>>
    /\ other \in {NewFrame(d) : d \in PairDocs}
    /\ WriterIdle
    /\ MainIdle
    /\ ToolsIdle

\* the scheduler runs the other invocation: each keeps its own locals
Switch ==
    /\ other.pc # "none"
    /\ doc' = other.doc
    /\ pc' = other.pc
    /\ id2name' = other.id2name
    /\ fk_for_entity' = other.fk_for_entity
    /\ r' = other.r
    /\ e' = other.e
    /\ entities' = other.entities
    /\ other' = Frame(doc, pc, id2name, fk_for_entity, r, e, entities)
    /\ UNCHANGED <<call, first, writerVars, mainVars, toolVars>>

\* parse_dez_file is called again, on another document
CallOther ==
    /\ pc = "done"
    /\ call < MaxCalls
    /\ doc' \in PairDocs
    /\ call' = call + 1
    /\ pc' = "id2name"
    /\ UNCHANGED <<id2name, fk_for_entity, r, e, entities, first, other,
                   writerVars, mainVars, toolVars>>

NextPair ==
    BuildMaps \/ NextRel \/ BeginEntities \/ NextEnt \/ Return \/ Switch \/ CallOther

SpecPair == InitPair /\ [][NextPair]_vars

(***************************************************************************)
(* What the claims speak of                                                *)
(***************************************************************************)
\* the (entity, attribute) positions whose field has been emitted
Emitted ==
    UNION {{<<i, j>> : j \in 1..Len(entities[i].fields)} : i \in 1..Len(entities)}

FieldAt(p) == entities[p[1]].fields[p[2]]
EntAt(p) == doc.ents[p[1]]
AttrAt(p) == doc.ents[p[1]].ATTRIBUTES[p[2]]

\* the text of a child element, empty when the element is absent
TextIn(el) == IF el = Absent THEN <<>> ELSE el[1]

\* the attribute's id is listed in the entity's primary-key constraint
InPrimaryKey(ent, attr) ==
    \E i \in 1..Len(ent.PKCON) :
        /\ Len(TextIn(ent.PKCON[i])) > 0
        /\ Strip(TextIn(ent.PKCON[i])) = TextIn(attr.ID)

\* the entity declarations a relationship's parent id resolves to
ParentsOf(rel) ==
    {i \in 1..Len(doc.ents) :
        /\ Len(TextIn(doc.ents[i].ID)) > 0
        /\ TextIn(doc.ents[i].ID) = TextIn(rel.PARENTOBJECTID)}

\* the relationships that make the attribute a foreign key of the entity:
\* the entity is the child, the parent resolves to a named entity, and a pair
\* lists the attribute
ForeignRels(ent, attr) ==
    {k \in 1..Len(doc.rels) :
        /\ Len(TextIn(ent.ID)) > 0
        /\ TextIn(doc.rels[k].CHILDOBJECTID) = TextIn(ent.ID)
        /\ \E i \in ParentsOf(doc.rels[k]) : Len(TextIn(doc.ents[i].NAME)) > 0
        /\ \E n \in 1..Len(doc.rels[k].PAIRS) :
              /\ Len(TextIn(doc.rels[k].PAIRS[n])) > 0
              /\ TextIn(doc.rels[k].PAIRS[n]) = TextIn(attr.ID)}

InForeignKeyMap(ent, attr) == ForeignRels(ent, attr) # {}

IncludesForeign(f) == f.key_type \in {"FOREIGN", "PRIMARY, FOREIGN"}

\* C1: the key role of every emitted field follows the four-way rule on its
\* membership in the entity's primary-key set and in its foreign-key map:
\* "PRIMARY, FOREIGN" iff in both, "PRIMARY" iff only in the first, "FOREIGN"
\* iff only in the second, empty iff in neither.
C1_KeyRoleFourWay ==
    \A p \in Emitted :
        LET pk == InPrimaryKey(EntAt(p), AttrAt(p))
            fk == InForeignKeyMap(EntAt(p), AttrAt(p))
            role == FieldAt(p).key_type
        IN /\ (role = "PRIMARY, FOREIGN") <=> (pk /\ fk)
           /\ (role = "PRIMARY") <=> (pk /\ ~fk)
           /\ (role = "FOREIGN") <=> (~pk /\ fk)
           /\ (role = "") <=> (~pk /\ ~fk)

\* all four key roles have been emitted for one document
C1_Witness ==
    /\ pc = "done"
    /\ \A role \in {"PRIMARY, FOREIGN", "PRIMARY", "FOREIGN", ""} :
          \E p \in Emitted : FieldAt(p).key_type = role

\* C9: sourced is true iff the key role does not include FOREIGN.
C9_SourcedIffNotForeign ==
    \A p \in Emitted : FieldAt(p).sourced <=> ~IncludesForeign(FieldAt(p))

\* a primary-only field emitted as sourced beside a foreign field emitted as not
C9_Witness ==
    /\ \E p \in Emitted : FieldAt(p).key_type = "PRIMARY" /\ FieldAt(p).sourced
    /\ \E p \in Emitted : FieldAt(p).key_type = "FOREIGN" /\ ~FieldAt(p).sourced
    /\ \E p \in Emitted : FieldAt(p).key_type = "PRIMARY, FOREIGN" /\ ~FieldAt(p).sourced

\* C10: referenced_dimension is the non-empty name of the parent entity of a
\* relationship listing the field as foreign key when the key role includes
\* FOREIGN, and empty otherwise.
C10_ReferencedEntity ==
    \A p \in Emitted :
        LET f == FieldAt(p) IN
        /\ ~IsNone(f.referenced_dimension)
        /\ IncludesForeign(f) =>
              /\ Len(f.referenced_dimension[1]) > 0
              /\ \E k \in ForeignRels(EntAt(p), AttrAt(p)) :
                    \E i \in ParentsOf(doc.rels[k]) :
                        TextIn(doc.ents[i].NAME) = f.referenced_dimension[1]
        /\ ~IncludesForeign(f) => Len(f.referenced_dimension[1]) = 0

\* a foreign field naming its parent beside a field of the same entity naming none
C10_Witness ==
    \E p \in Emitted, q \in Emitted :
        /\ p[1] = q[1]
        /\ IncludesForeign(FieldAt(p))
        /\ FieldAt(p).referenced_dimension = Str(N_Order)
        /\ ~IncludesForeign(FieldAt(q))
        /\ FieldAt(q).referenced_dimension = Str(<<>>)

\* the relationship's parent id resolves to no declared entity
Dangling(rel) == ParentsOf(rel) = {}

NotDangling(rel) == ~Dangling(rel)

\* the document with its dangling relationships removed
WithoutDangling == [doc EXCEPT !.rels = SelectSeq(doc.rels, NotDangling)]

\* key role, sourced flag and referenced entity of every field
KeyView(es) ==
    [i \in 1..Len(es) |->
        [j \in 1..Len(es[i].fields) |->
            <<es[i].fields[j].key_type, es[i].fields[j].sourced,
              es[i].fields[j].referenced_dimension>>]]

\* C2: a relationship whose parent id resolves to no declared entity never
\* makes the call raise, and the key role, sourced flag and referenced entity
\* of every field are those returned for the document without such relationships.
C2_DanglingContributesNothing ==
    /\ pc # "raised"
    /\ pc = "done" =>
          LET clean == parse_dez_file(WithoutDangling)
          IN clean.ok /\ KeyView(entities) = KeyView(clean.val)

\* a returned field that only a dangling relationship lists as foreign key,
\* beside a field that a resolved relationship makes foreign
C2_Witness ==
    /\ pc = "done"
    /\ \E p \in Emitted :
          /\ ~IncludesForeign(FieldAt(p))
          /\ \E k \in 1..Len(doc.rels) :
                /\ Dangling(doc.rels[k])
                /\ Len(TextIn(EntAt(p).ID)) > 0
                /\ TextIn(doc.rels[k].CHILDOBJECTID) = TextIn(EntAt(p).ID)
                /\ \E n \in 1..Len(doc.rels[k].PAIRS) :
                      doc.rels[k].PAIRS[n] = AttrAt(p).ID
    /\ \E q \in Emitted : IncludesForeign(FieldAt(q))

StartOfTime == "\"1900-01-01 00:00:00.0000\""
EndOfTime == "\"9999-12-31 23:59:59.9999\""

\* the triple registered for a datatype, three empty strings for any other
RegisteredDefaults(dtype) ==
    LET u == Upper(dtype) IN
    CASE u \in {K_TIMESTAMP, K_DATETIME} -> <<StartOfTime, StartOfTime, EndOfTime>>
      [] u = K_DATE -> <<"\"1900-01-01\"", "\"1900-01-01\"", "\"9999-12-31\"">>
      [] u = K_INT64 -> <<"-1", "-1", "-2">>
      [] u = K_STRING -> <<"\"\"", "\"\"", "\"\"">>
      [] u = K_BOOL -> <<"NULL", "NULL", "NULL">>
      [] u = K_NUMERIC -> <<"0", "0", "0">>
      [] u = K_FLOAT64 -> <<"\"0.0\"", "\"0.0\"", "\"0.0\"">>
      [] OTHER -> <<"", "", "">>

ExpectedDefaults(name, dtype) ==
    IF Contains(L_effective_start, Lower(name))
    THEN <<StartOfTime, StartOfTime, StartOfTime>>
    ELSE IF Contains(L_effective_end, Lower(name))
    THEN <<EndOfTime, EndOfTime, EndOfTime>>
    ELSE RegisteredDefaults(dtype)

\* C3: the defaults of every field are the start-of-time triple if its name
\* contains "effective_start" case-insensitively, whatever the datatype;
\* otherwise the end-of-time triple if it contains "effective_end"; otherwise
\* the triple registered for the datatype; three empty strings for a datatype
\* that is not registered.
C3_DefaultsRule ==
    \A p \in Emitted :
        LET f == FieldAt(p) IN
        <<f.def_val, f.def_m1, f.def_m2>> = ExpectedDefaults(f.name[1], f.datatype[1])

\* a name holding both substrings with a registered datatype got the start triple
C3_Witness ==
    \E p \in Emitted :
        /\ FieldAt(p).name = Str(N_effective_end_effective_start)
        /\ FieldAt(p).datatype = Str(K_INT64)
        /\ FieldAt(p).def_m2 = StartOfTime

\* C7: a second call on the same document returns what the first returned,
\* entity by entity and field by field, in the same order.
C7_Deterministic == (pc = "done" /\ call > 1) => entities = first

\* a second call has returned two entities, one with a foreign field
C7_Witness ==
    /\ pc = "done"
    /\ call = 2
    /\ Len(entities) = 2
    /\ \E p \in Emitted : IncludesForeign(FieldAt(p))

\* C8: no call raises, every emitted field holds its three default slots as
\* strings, and a returned entity holds a field for every attribute.
C8_TripleAlwaysPopulated ==
    /\ pc # "raised"
    /\ \A p \in Emitted :
          /\ {"def_val", "def_m1", "def_m2"} \subseteq DOMAIN FieldAt(p)
          /\ FieldAt(p).def_val \in STRING
          /\ FieldAt(p).def_m1 \in STRING
          /\ FieldAt(p).def_m2 \in STRING
    /\ pc = "done" =>
          \A i \in 1..Len(doc.ents) :
              Len(entities[i].fields) = Len(doc.ents[i].ATTRIBUTES)

\* fields without name and datatype, and with an unregistered datatype, emitted
C8_Witness ==
    /\ pc = "done"
    /\ \E p \in Emitted :
          /\ AttrAt(p).NAME = Absent
          /\ AttrAt(p).DT \in {Absent, Elem(<<>>), Elem(D_GEOGRAPHY)}
          /\ AttrAt(p).DT # Absent => FieldAt(p).def_val = ""

(***************************************************************************)
(* The naming convention <order-prefix>_source_<kind>_<group-index> and    *)
(* the table options, as the claims state them                             *)
(***************************************************************************)
L_source_database == <<"s", "o", "u", "r", "c", "e", "_", "d", "a", "t", "a", "b", "a", "s", "e">>
L_partition_by == <<"p", "a", "r", "t", "i", "t", "i", "o", "n", " ", "b", "y">>
L_cluster_by == <<"c", "l", "u", "s", "t", "e", "r", " ", "b", "y">>

Digits == <<"0", "1", "2", "3", "4", "5", "6", "7", "8", "9">>

AllDigits(t) ==
    Len(t) > 0 /\ \A i \in 1..Len(t) : \E n \in 1..Len(Digits) : Digits[n] = t[i]

RECURSIVE ToNat(_)
ToNat(t) ==
    IF Len(t) = 0 THEN 0
    ELSE 10 * ToNat(SubSeq(t, 1, Len(t) - 1))
         + (CHOOSE n \in 0..9 : Digits[n + 1] = t[Len(t)])

\* sub occurs in t at place i
OccursAt(t, sub, i) ==
    i >= 1 /\ i + Len(sub) - 1 <= Len(t) /\ SubSeq(t, i, i + Len(sub) - 1) = sub

MinOf(S) == CHOOSE x \in S : \A y \in S : x <= y
MaxOf(S) == CHOOSE x \in S : \A y \in S : x >= y

\* where the kind starts in a property name that follows the convention (the
\* order prefix may be missing), 0 when the name does not follow it
KindStart(name, kind) ==
    LET pat == kind \o <<"_">>
        hits == {i \in 1..Len(name) :
                    /\ OccursAt(name, pat, i)
                    /\ \/ i = 1
                       \/ i > 2 /\ name[i - 1] = "_" /\ AllDigits(SubSeq(name, 1, i - 2))
                    /\ AllDigits(SubSeq(name, i + Len(pat), Len(name)))}
    IN IF hits = {} THEN 0 ELSE MinOf(hits)

\* the group index of a property of the given kind
GroupOf(prop, kind) ==
    LET name == Lower(SliceFrom(prop.tag, 4))
    IN ToNat(SubSeq(name, KindStart(name, kind) + Len(kind) + 1, Len(name)))

\* the properties of a kind
OfKind(props, kind) ==
    {k \in 1..Len(props) : KindStart(Lower(SliceFrom(props[k].tag, 4)), kind) > 0}

\* the group indices the properties name
GroupsOf(props) ==
    {GroupOf(props[k], kind) :
        <<k, kind>> \in {x \in (1..Len(props)) \X {L_source_database, L_source_table, L_source_column} :
                            x[1] \in OfKind(props, x[2])}}

\* the value of a kind in a group, empty when the group lacks it
ValueIn(props, kind, g) ==
    LET ks == {k \in OfKind(props, kind) : GroupOf(props[k], kind) = g}
    IN IF ks = {} THEN "" ELSE TextOrEmpty(props[MaxOf(ks)].text)

RECURSIVE Ascending(_)
Ascending(S) ==
    IF S = {} THEN <<>> ELSE <<MinOf(S)>> \o Ascending(S \ {MinOf(S)})

\* one (database, table, column) triple per group, by ascending group index
GroupedSources(props) ==
    LET gs == Ascending(GroupsOf(props))
    IN [n \in 1..Len(gs) |->
           [database |-> ValueIn(props, L_source_database, gs[n]),
            table |-> ValueIn(props, L_source_table, gs[n]),
            column |-> ValueIn(props, L_source_column, gs[n])]]

\* the first place at or after from where sub occurs in t, 0 when it does not
FindSub(t, sub, from) ==
    LET hits == {i \in from..Len(t) : OccursAt(t, sub, i)}
    IN IF hits = {} THEN 0 ELSE MinOf(hits)

WordChar(c) == c \notin {" ", ",", "(", ")", "\n", "\t"}

RECURSIVE WordAt(_, _)
WordAt(t, i) ==
    IF i <= Len(t) /\ WordChar(t[i]) THEN <<t[i]>> \o WordAt(t, i + 1) ELSE <<>>

\* the column captured from PARTITION BY ... (<column>)
PartitionColumns(opts) ==
    LET at == FindSub(Lower(opts), L_partition_by, 1)
        open == IF at = 0 THEN 0 ELSE FindSub(opts, <<"(">>, at)
    IN IF open = 0 \/ Len(WordAt(opts, open + 1)) = 0 THEN {}
       ELSE {WordAt(opts, open + 1)}

RECURSIVE SplitComma(_)
SplitComma(t) ==
    LET c == FindSub(t, <<",">>, 1)
    IN IF c = 0 THEN {Strip(t)}
       ELSE {Strip(SubSeq(t, 1, c - 1))} \cup SplitComma(SubSeq(t, c + 1, Len(t)))

\* the trimmed entries of CLUSTER BY <col1>, <col2>, ... up to the line end
ClusterColumns(opts) ==
    LET at == FindSub(Lower(opts), L_cluster_by, 1)
        from == at + Len(L_cluster_by)
        nl == IF at = 0 THEN 0 ELSE FindSub(opts, <<"\n">>, from)
        to == IF nl = 0 THEN Len(opts) ELSE nl - 1
    IN IF at = 0 THEN {}
       ELSE {c \in SplitComma(SubSeq(opts, from, to)) : Len(c) > 0}

Unannotated(ent) == [ent EXCEPT !.USERDEFPROPS = <<>>, !.OPTIONS = <<>>]

Chars(v) == IF IsNone(v) THEN <<>> ELSE v[1]

LastTagged(udps, lit) ==
    LET ks == {k \in 1..Len(udps) : Lower(SliceFrom(udps[k].tag, 4)) = lit}
    IN IF ks = {} THEN "" ELSE TextOrEmpty(udps[MaxOf(ks)].text)

FieldGroups(props) ==
    {GroupOf(props[k], kind) :
        <<k, kind>> \in {x \in (1..Len(props)) \X {L_source_table, L_source_column} :
                            x[1] \in OfKind(props, x[2])}}

\* C6 as stated: a field's src_table and src_attr are those of the lineage
\* group with the highest group index only, and empty without lineage
\* properties.
C6_HighestGroupOnly ==
    \A p \in Emitted :
        LET props == AttrAt(p).USERDEFPROPS
            gs == FieldGroups(props)
        IN IF gs = {}
           THEN FieldAt(p).src_table = "" /\ FieldAt(p).src_attr = ""
           ELSE /\ FieldAt(p).src_table = ValueIn(props, L_source_table, MaxOf(gs))
                /\ FieldAt(p).src_attr = ValueIn(props, L_source_column, MaxOf(gs))

\* the texts, in document order, of the properties whose tag, its first four
\* characters dropped and lowercased, starts with lit
RECURSIVE TextsTagged(_, _)
TextsTagged(udps, lit) ==
    IF Len(udps) = 0 THEN <<>>
    ELSE (IF StartsWith(Lower(SliceFrom(Head(udps).tag, 4)), lit)
          THEN <<TextOrEmpty(Head(udps).text)>> ELSE <<>>)
         \o TextsTagged(Tail(udps), lit)

\* the texts separated by a comma and a space
RECURSIVE CommaSeparated(_)
CommaSeparated(texts) ==
    IF Len(texts) = 0 THEN ""
    ELSE IF Len(texts) = 1 THEN texts[1]
    ELSE texts[1] \o ", " \o CommaSeparated(Tail(texts))

\* C6: a field's src_table (src_attr) is the texts of all of its own
\* properties named source_table... (source_column...) after the
\* four-character tag prefix, in document order and of every group, joined by
\* ", "; a field with no such property gets empty src_table and src_attr.
C6_AllGroupsJoined ==
    \A p \in Emitted :
        LET props == AttrAt(p).USERDEFPROPS
        IN /\ FieldAt(p).src_table = CommaSeparated(TextsTagged(props, L_source_table))
           /\ FieldAt(p).src_attr = CommaSeparated(TextsTagged(props, L_source_column))

\* a field carrying two lineage groups has been emitted with both
C6_Witness ==
    \E p \in Emitted :
        /\ FieldGroups(AttrAt(p).USERDEFPROPS) = {1, 2}
        /\ FieldAt(p).src_table = "A, B"
        /\ FieldAt(p).src_attr = "c1, c2"

(***************************************************************************)
(* C11: the emitted datatype                                               *)
(***************************************************************************)
\* the type names DEFAULTS registers for a datatype
TypeVocabulary ==
    {K_TIMESTAMP, K_DATETIME, K_DATE, K_INT64, K_STRING, K_BOOL, K_NUMERIC, K_FLOAT64}

\* C11 as stated: the datatype of every emitted field is a name of the type
\* vocabulary, and it is STRING when the attribute's datatype is missing,
\* empty or no name of the vocabulary.
C11_DatatypeInVocabulary ==
    \A p \in Emitted :
        /\ Chars(FieldAt(p).datatype) \in TypeVocabulary
        /\ (AttrAt(p).DT = Absent \/ TextIn(AttrAt(p).DT) \notin TypeVocabulary)
              => FieldAt(p).datatype = Str(K_STRING)

\* C11: the datatype of every emitted field is STRING when the attribute's
\* datatype element is missing, and otherwise the text of that element as it
\* is written: the empty string for an empty element, and a name outside the
\* vocabulary (or in another letter case) unchanged.
C11_DatatypeAsWritten ==
    \A p \in Emitted :
        FieldAt(p).datatype =
            (IF AttrAt(p).DT = Absent THEN Str(K_STRING) ELSE Str(TextIn(AttrAt(p).DT)))

\* fields have been emitted for a missing, an empty and an unregistered datatype
C11_Witness ==
    \E p \in Emitted :
        \/ AttrAt(p).DT = Elem(D_GEOGRAPHY) /\ FieldAt(p).datatype = Str(D_GEOGRAPHY)
              /\ FieldAt(p).def_val = ""

(***************************************************************************)
(* C12: missing optional sub-elements                                      *)
(***************************************************************************)
\* C12: an attribute without its description, nullability constraint or
\* datatype never makes the call raise and its field is emitted: description
\* is empty when DESC is absent, not_null is false when NNCON is absent, and
\* not_null is true only for a constraint that is present with the value 1.
C12_MissingOptionalTolerated ==
    /\ pc # "raised"
    /\ pc = "done" =>
          \A i \in 1..Len(doc.ents) :
              /\ i <= Len(entities)
              /\ Len(entities[i].fields) = Len(doc.ents[i].ATTRIBUTES)
    /\ \A p \in Emitted :
          /\ AttrAt(p).DESC = Absent => FieldAt(p).description = Str("")
          /\ AttrAt(p).NNCON = Absent => FieldAt(p).not_null = FALSE
          /\ FieldAt(p).not_null = TRUE <=> AttrAt(p).NNCON = Elem(V_1)

\* the call has returned the field of an attribute that lacks all three
C12_Witness ==
    /\ pc = "done"
    /\ \E p \in Emitted :
          /\ AttrAt(p).DESC = Absent /\ AttrAt(p).NNCON = Absent /\ AttrAt(p).DT = Absent
          /\ FieldAt(p).description = Str("")
          /\ FieldAt(p).not_null = FALSE

(***************************************************************************)
(* C13: document order and cardinality                                     *)
(***************************************************************************)
\* C13: the result holds one entity per ENT element, in document order, and
\* each entity one field per ATTR element of that entity, in document order;
\* while the entity loop runs, the entities so far are those of the
\* declarations before the e-th.
C13_OrderAndCardinality ==
    /\ pc = "ents" => Len(entities) = e - 1
    /\ pc = "done" => Len(entities) = Len(doc.ents)
    /\ pc \in {"ents", "done"} =>
          \A i \in 1..Len(entities) :
              /\ entities[i].name = FindTextNoDefault(doc.ents[i].NAME)
              /\ Len(entities[i].fields) = Len(doc.ents[i].ATTRIBUTES)
              /\ \A j \in 1..Len(entities[i].fields) :
                    entities[i].fields[j].name
                        = FindText(doc.ents[i].ATTRIBUTES[j].NAME, Str(<<>>))

\* two entities of different names, of two fields of different names each,
\* have been returned
C13_Witness ==
    /\ pc = "done"
    /\ Len(entities) = 2
    /\ entities[1].name # entities[2].name
    /\ \A i \in 1..2 :
          Len(entities[i].fields) = 2
          /\ entities[i].fields[1].name # entities[i].fields[2].name

(***************************************************************************)
(* C15: fully populated records                                            *)
(***************************************************************************)
FieldKeys ==
    {"name", "description", "datatype", "sourced", "not_null", "src_table",
     "src_attr", "def_val", "def_m1", "def_m2", "key_type",
     "referenced_dimension", "clustering", "partitioning"}

\* C15 as stated: the name and the description of every entity returned are
\* strings, never None, and each of its fields defines every field attribute.
C15_FullyPopulated ==
    \A i \in 1..Len(entities) :
        /\ ~IsNone(entities[i].name)
        /\ ~IsNone(entities[i].description)
        /\ \A j \in 1..Len(entities[i].fields) :
              DOMAIN entities[i].fields[j] = FieldKeys

(***************************************************************************)
(* C14: invocations do not interfere                                       *)
(***************************************************************************)
\* C14: whatever ran before an invocation in its frame and whatever another
\* invocation did in between its steps, what it returns for its document is
\* what a call on that document alone returns.
C14_NoInterference ==
    /\ pc = "done" => Ok(entities) = parse_dez_file(doc)
    /\ other.pc = "done" => Ok(other.entities) = parse_dez_file(other.doc)

\* a second call has returned, on a document without relationships, after a
\* call on a document with a relationship, while an invocation on a third
\* document was part-way through its relationships
C14_Witness ==
    /\ pc = "done"
    /\ call = 2
    /\ doc.rels = <<>>
    /\ first # <<>>
    /\ first # entities
    /\ other.pc = "ents"
    /\ other.doc # doc

(***************************************************************************)
(* utils/helpers.py and utils/template_writer.py: the worksheet.           *)
(*                                                                         *)
(* A sheet is [cells, merged, style]: cells[row][col] is the value of a    *)
(* cell, None when empty and Str(text) otherwise; merged is the set of     *)
(* merged ranges; style[row] is the style of the cells of a row.  The      *)
(* texts of column A and of the header row, which the code normalizes, are *)
(* tuples of characters; the other texts, which it copies, are strings.    *)
(***************************************************************************)
H_Attribute_Name == <<"A", "t", "t", "r", "i", "b", "u", "t", "e", " ", "N", "a", "m", "e">>
H_Attribute_Description == <<"A", "t", "t", "r", "i", "b", "u", "t", "e", " ", "D", "e", "s", "c", "r", "i", "p", "t", "i", "o", "n">>
H_Datatype == <<"D", "a", "t", "a", "t", "y", "p", "e">>
H_Sourced_Derived == <<"S", "o", "u", "r", "c", "e", "d", "/", "D", "e", "r", "i", "v", "e", "d">>
H_Source_Table == <<"S", "o", "u", "r", "c", "e", " ", "T", "a", "b", "l", "e">>
H_Source_Attribute == <<"S", "o", "u", "r", "c", "e", " ", "A", "t", "t", "r", "i", "b", "u", "t", "e">>
H_Not_Null == <<"N", "o", "t", " ", "N", "u", "l", "l">>
H_Default_Values == <<"D", "e", "f", "a", "u", "l", "t", " ", "V", "a", "l", "u", "e", "s">>
H_Default_Records == <<"D", "e", "f", "a", "u", "l", "t", " ", "R", "e", "c", "o", "r", "d", "s">>
H_Default_Records_2 == <<"D", "e", "f", "a", "u", "l", "t", " ", "R", "e", "c", "o", "r", "d", "s", " ", "(", "2", ")">>
H_Keys == <<"K", "e", "y", "s">>
H_Clustering == <<"C", "l", "u", "s", "t", "e", "r", "i", "n", "g">>
H_Partitioning == <<"P", "a", "r", "t", "i", "t", "i", "o", "n", "i", "n", "g">>
H_Referenced_Dimension == <<"R", "e", "f", "e", "r", "e", "n", "c", "e", "d", " ", "D", "i", "m", "e", "n", "s", "i", "o", "n">>

\* template_writer.py lines 18-33
HDRS ==
    [name |-> H_Attribute_Name,
     desc |-> H_Attribute_Description,
     type |-> H_Datatype,
     sd |-> H_Sourced_Derived,
     src_t |-> H_Source_Table,
     src_a |-> H_Source_Attribute,
     nn |-> H_Not_Null,
     def_v |-> H_Default_Values,
     def_m1 |-> H_Default_Records,
     def_m2 |-> H_Default_Records_2,
     key |-> H_Keys,
     clust |-> H_Clustering,
     part |-> H_Partitioning,
     ref_dim |-> H_Referenced_Dimension]

\* the keys of HDRS in the order of the dict
HdrKeys ==
    <<"name", "desc", "type", "sd", "src_t", "src_a", "nn", "def_v", "def_m1",
      "def_m2", "key", "clust", "part", "ref_dim">>

H_hash == <<"#">>
T_None == <<"N", "o", "n", "e">>

\* ws.max_row, ws.max_column
MaxRowOf(sh) == Len(sh.cells)
MaxColumnOf(sh) == IF Len(sh.cells) = 0 THEN 0 ELSE Len(sh.cells[1])

BlankRow(width) == [c \in 1..width |-> None]

\* a cell without a style
NoStyle == [look |-> "none", number_format |-> "General"]

\* ws.cell(row, col): rows that do not exist yet are created empty
WithRow(sh, row) ==
    IF row <= MaxRowOf(sh) THEN sh
    ELSE [sh EXCEPT
            !.cells = @ \o [k \in 1..(row - MaxRowOf(sh)) |-> BlankRow(MaxColumnOf(sh))],
            !.style = @ \o [k \in 1..(row - MaxRowOf(sh)) |-> NoStyle]]

\* ws.cell(row, col).value
ValueAt(sh, row, col) ==
    IF row <= MaxRowOf(sh) THEN sh.cells[row][col] ELSE None

\* ws.cell(row, col).value = v
SetValue(sh, row, col, v) == [WithRow(sh, row) EXCEPT !.cells[row][col] = v]

\* helpers.py lines 17-18
normalize(text) == IF Truthy(text) THEN Lower(Strip(text[1])) ELSE <<>>

\* helpers.py lines 20-25: the first of the rows 1..100 whose first cell
\* matches; an Exception without one
get_header_row(sh, match_value) ==
    LET hits == {row \in 1..100 :
                    normalize(ValueAt(sh, row, 1)) = normalize(Str(match_value))}
    IN IF hits = {} THEN Raised
       ELSE Ok(CHOOSE row \in hits : \A x \in hits : row <= x)

\* str(n) of a natural number
RECURSIVE IntToText(_)
IntToText(n) ==
    LET d == <<"0", "1", "2", "3", "4", "5", "6", "7", "8", "9">>
    IN IF n < 10 THEN <<d[n + 1]>> ELSE IntToText(n \div 10) \o <<d[(n % 10) + 1]>>

\* f"{val} ({count})"
Numbered(val, count) == val \o <<" ", "(">> \o IntToText(count) \o <<")">>

\* str(value) of a cell value
StrOf(v) == IF IsNone(v) THEN T_None ELSE v[1]

\* helpers.py lines 96-106: the cells of one unmerged range, from column col on
RECURSIVE FillRange(_, _, _, _, _, _)
FillRange(sh, seen, header_row, base_val, col, max_col) ==
    IF col > max_col THEN [sh |-> sh, seen |-> seen]
    ELSE LET count == DictGet(seen, base_val, 0) + 1
             new_val == IF count = 1 THEN base_val ELSE Numbered(base_val, count)
         IN FillRange(SetValue(sh, header_row, col, Str(new_val)),
                      DictSet(seen, base_val, count),
                      header_row, base_val, col + 1, max_col)

\* helpers.py lines 84-106: the merged ranges of the header row, in the order
\* the sheet yields them
RECURSIVE UnmergeRanges(_, _, _, _)
UnmergeRanges(sh, seen, header_row, merged_ranges) ==
    IF Len(merged_ranges) = 0 THEN sh
    ELSE LET rng == Head(merged_ranges)
         IN IF rng.min_row # rng.max_row
            THEN UnmergeRanges(sh, seen, header_row, Tail(merged_ranges))
            ELSE LET unmerged == [sh EXCEPT !.merged = @ \ {rng}]
                     base_val == Strip(StrOf(ValueAt(unmerged, header_row, rng.min_col)))
                     filled == FillRange(unmerged, seen, header_row, base_val,
                                         rng.min_col, rng.max_col)
                 IN UnmergeRanges(filled.sh, filled.seen, header_row, Tail(merged_ranges))

\* helpers.py lines 109-117: the second pass over the cells of the header row
RECURSIVE Deduplicate(_, _, _, _)
Deduplicate(sh, seen, header_row, col) ==
    IF col > MaxColumnOf(sh) THEN sh
    ELSE LET value == ValueAt(sh, header_row, col)
             val == IF Truthy(value) THEN Strip(value[1]) ELSE <<>>
             count == DictGet(seen, val, 0) + 1
         IN IF Len(val) = 0 THEN Deduplicate(sh, seen, header_row, col + 1)
            ELSE Deduplicate(IF count > 1
                             THEN SetValue(sh, header_row, col, Str(Numbered(val, count)))
                             ELSE sh,
                             DictSet(seen, val, count), header_row, col + 1)

\* the orders in which the merged ranges of a row can be listed
RangeOrders(sh, header_row) ==
    LET rs == {rng \in sh.merged : rng.min_row = header_row}
    IN {o \in [1..Cardinality(rs) -> rs] : \A i, j \in DOMAIN o : i # j => o[i] # o[j]}

\* helpers.py lines 77-117, the merged ranges listed in the order merged_ranges
unwrap_merged_headers(sh, header_row, merged_ranges) ==
    Deduplicate(UnmergeRanges(sh, EmptyDict, header_row, merged_ranges),
                EmptyDict, header_row, 1)

\* template_writer.py lines 49-53: later cells replace earlier ones of the
\* same normalized text
RECURSIVE HeaderMap(_, _, _, _)
HeaderMap(sh, hdr, col, acc) ==
    IF col > MaxColumnOf(sh) THEN acc
    ELSE HeaderMap(sh, hdr, col + 1,
                   IF Truthy(ValueAt(sh, hdr, col))
                   THEN DictSet(acc, normalize(ValueAt(sh, hdr, col)), col)
                   ELSE acc)

\* template_writer.py line 126
TEMPLATE_CAP == 500

\* the style and the value of the source row copied together
copy_style_and_value(sh, src_row, dst_row) ==
    LET both == WithRow(WithRow(sh, src_row), dst_row)
    IN [both EXCEPT !.style[dst_row] = both.style[src_row],
                    !.cells[dst_row] = both.cells[src_row]]

\* template_writer.py lines 56-73: the style and the number format of the
\* cells of src_row given to the cells of dst_row; no value is touched
copy_style_only(sh, src_row, dst_row) ==
    LET both == WithRow(WithRow(sh, src_row), dst_row)
        src == both.style[src_row]
        dst == both.style[dst_row]
    IN [both EXCEPT !.style[dst_row] =
            [look |-> IF src.look # "none" THEN src.look ELSE dst.look,
             number_format |-> src.number_format]]

\* ws.insert_rows(at, amount): the rows from at on move down by amount
insert_rows(sh, at, amount) ==
    IF at > MaxRowOf(sh) THEN sh
    ELSE [sh EXCEPT
            !.cells = SubSeq(@, 1, at - 1)
                      \o [k \in 1..amount |-> BlankRow(MaxColumnOf(sh))]
                      \o SubSeq(@, at, Len(@)),
            !.style = SubSeq(@, 1, at - 1)
                      \o [k \in 1..amount |-> NoStyle]
                      \o SubSeq(@, at, Len(@))]

\* template_writer.py lines 131-133
RECURSIVE StyleInserted(_, _, _, _, _)
StyleInserted(sh, first_data_row, extra_at, i, amount) ==
    IF i >= amount THEN sh
    ELSE StyleInserted(copy_style_only(sh, first_data_row + TEMPLATE_CAP - 1, extra_at + i),
                       first_data_row, extra_at, i + 1, amount)

\* the sheet left as it is
Grow_Never(sh, first_data_row, needed) == sh

\* template_writer.py lines 127-133
Grow(sh, first_data_row, needed) ==
    IF needed > TEMPLATE_CAP
    THEN LET extra_at == first_data_row + TEMPLATE_CAP
         IN StyleInserted(insert_rows(sh, extra_at, needed - TEMPLATE_CAP),
                          first_data_row, extra_at, 0, needed - TEMPLATE_CAP)
    ELSE sh

\* template_writer.py lines 146-159: the values of one field, by logical key
FieldValues(fld) ==
    [name |-> fld.name,
     desc |-> fld.description,
     type |-> fld.datatype,
     sd |-> IF fld.sourced THEN Str("Sourced") ELSE Str("Derived"),
     src_t |-> fld.src_table,
     src_a |-> fld.src_attr,
     ref_dim |-> fld.referenced_dimension,
     nn |-> IF fld.not_null THEN Str("Y") ELSE Str("N"),
     def_v |-> fld.def_val,
     def_m1 |-> fld.def_m1,
     def_m2 |-> fld.def_m2,
     key |-> fld.key_type,
     clust |-> fld.clustering,
     part |-> fld.partitioning]

\* template_writer.py lines 136-138: col(key) is defined
HasCol(map, key) == normalize(Str(HDRS[key])) \in DOMAIN map

\* template_writer.py lines 136-138
Col(map, key) == map[normalize(Str(HDRS[key]))]

\* template_writer.py lines 146-159: the cells of one row written
WriteValues(sh, row, fld, map) ==
    LET values == FieldValues(fld)
        at == WithRow(sh, row)
    IN [at EXCEPT !.cells[row] =
            [c \in 1..MaxColumnOf(sh) |->
                IF \E k \in DOMAIN values : Col(map, k) = c
                THEN values[CHOOSE k \in DOMAIN values : Col(map, k) = c]
                ELSE @[c]]]

\* the headers of HDRS in order, from the k-th on, that the map lacks
RECURSIVE MissingFrom(_, _)
MissingFrom(map, k) ==
    IF k > Len(HdrKeys) THEN <<>>
    ELSE (IF HasCol(map, HdrKeys[k]) THEN <<>> ELSE <<HDRS[HdrKeys[k]]>>)
         \o MissingFrom(map, k + 1)

\* the validation looking at the first header only
MissingHeaders_FirstOnly(map) ==
    IF HasCol(map, HdrKeys[1]) THEN <<>> ELSE <<HDRS[HdrKeys[1]]>>

\* template_writer.py lines 116-119: the headers the loop would report
MissingHeaders(map) == MissingFrom(map, 1)

(***************************************************************************)
(* write_entity(entity, template_path, out_dir), step by step              *)
(***************************************************************************)
\* template_writer.py lines 104-105
Load ==
    /\ wpc = "load"
    /\ ws' = template
    /\ wpc' = "meta"
    /\ UNCHANGED <<template, entity, hdr_row, cmap, idx, err, out, parserVars, mainVars, toolVars>>

\* template_writer.py lines 108-109: B3 and B4
WriteMeta ==
    /\ wpc = "meta"
    /\ ws' = SetValue(SetValue(ws, 3, 2, entity.name), 4, 2, entity.description)
    /\ wpc' = "header"
    /\ UNCHANGED <<template, entity, hdr_row, cmap, idx, err, out, parserVars, mainVars, toolVars>>

\* template_writer.py line 112
FindHeader ==
    /\ wpc = "header"
    /\ LET found == get_header_row(ws, H_hash)
       IN IF found.ok
          THEN hdr_row' = found.val /\ wpc' = "map" /\ err' = err
          ELSE hdr_row' = hdr_row /\ wpc' = "raised"
               /\ err' = [type |-> "Exception", header |-> <<>>]
    /\ UNCHANGED <<template, entity, ws, cmap, idx, out, parserVars, mainVars, toolVars>>

\* template_writer.py line 113: _build_map(ws, hdr_row)
BuildMap ==
    /\ wpc = "map"
    /\ \E merged_ranges \in RangeOrders(ws, hdr_row) :
          LET unwrapped == unwrap_merged_headers(ws, hdr_row, merged_ranges)
          IN /\ ws' = unwrapped
             /\ cmap' = HeaderMap(unwrapped, hdr_row, 1, EmptyDict)
    /\ wpc' = "validate"
    /\ UNCHANGED <<template, entity, hdr_row, idx, err, out, parserVars, mainVars, toolVars>>

\* template_writer.py lines 116-119
Validate ==
    /\ wpc = "validate"
    /\ LET missing == MissingHeaders(cmap)
       IN IF Len(missing) > 0
          THEN wpc' = "raised" /\ err' = [type |-> "ValueError", header |-> missing[1]]
          ELSE wpc' = "grow" /\ err' = err
    /\ UNCHANGED <<template, entity, ws, hdr_row, cmap, idx, out, parserVars, mainVars, toolVars>>

\* template_writer.py lines 122-133
GrowSheet ==
    /\ wpc = "grow"
    /\ ws' = Grow(ws, hdr_row + 1, Len(entity.fields))
    /\ idx' = 0
    /\ wpc' = "rows"
    /\ UNCHANGED <<template, entity, hdr_row, cmap, err, out, parserVars, mainVars, toolVars>>

\* template_writer.py lines 140-159, one field; col(key) of a header the map
\* lacks is a KeyError
WriteRow ==
    /\ wpc = "rows"
    /\ idx < Len(entity.fields)
    /\ LET row == hdr_row + 1 + idx
       IN IF \A k \in DOMAIN HDRS : HasCol(cmap, k)
          THEN /\ ws' = WriteValues(copy_style_only(ws, hdr_row + 1, row), row,
                                    entity.fields[idx + 1], cmap)
               /\ idx' = idx + 1
               /\ UNCHANGED <<wpc, err, toolVars>>
          ELSE /\ wpc' = "raised"
               /\ err' = [type |-> "KeyError", header |-> <<>>]
               /\ UNCHANGED <<ws, idx, toolVars>>
    /\ UNCHANGED <<template, entity, hdr_row, cmap, out, parserVars, mainVars, toolVars>>

\* template_writer.py lines 162-164
Save ==
    /\ wpc = "rows"
    /\ idx >= Len(entity.fields)
    /\ out' = [name |-> entity.name, sheet |-> ws]
    /\ wpc' = "saved"
    /\ UNCHANGED <<template, entity, ws, hdr_row, cmap, idx, err, parserVars, mainVars, toolVars>>

NextWrite ==
    Load \/ WriteMeta \/ FindHeader \/ BuildMap \/ Validate \/ GrowSheet \/ WriteRow \/ Save

(***************************************************************************)
(* The templates and the entities written                                  *)
(***************************************************************************)
MaxExtra == 2

H_Comments == <<"C", "o", "m", "m", "e", "n", "t", "s">>
H_keys_padded == <<" ", "K", "E", "Y", "S", " ">>
H_Keys_2 == <<"K", "e", "y", "s", " ", "(", "2", ")">>
L_Table_Name == <<"T", "a", "b", "l", "e", " ", "N", "a", "m", "e">>
L_Description == <<"D", "e", "s", "c", "r", "i", "p", "t", "i", "o", "n">>
L_Notes == <<"N", "o", "t", "e", "s">>

\* a header row: its cells and the column ranges merged in it
Header(cells, ranges) == [cells |-> cells, ranges |-> ranges]

\* the header row with every header in a cell of its own
PlainCells ==
    <<Str(H_hash), Str(H_Attribute_Name), Str(H_Attribute_Description), Str(H_Datatype),
      Str(H_Sourced_Derived), Str(H_Source_Table), Str(H_Source_Attribute),
      Str(H_Not_Null), Str(H_Default_Values), Str(H_Default_Records),
      Str(H_Default_Records_2), Str(H_Keys), Str(H_Clustering), Str(H_Partitioning),
      Str(H_Referenced_Dimension), Str(H_Comments), None>>

\* the header row with Default Records merged over two columns
MergedCells == [PlainCells EXCEPT ![11] = None]

\* the header rows on which write_entity goes through
GoodHeaders ==
    {Header(PlainCells, {}),
     Header(MergedCells, {<<10, 11>>})}

\* header rows with repeated, numbered, padded, merged and missing texts
OddHeaders ==
    {Header([PlainCells EXCEPT ![17] = Str(H_Keys)], {}),
     Header([PlainCells EXCEPT ![16] = Str(H_Keys_2), ![17] = Str(H_Keys)], {}),
     Header([PlainCells EXCEPT ![12] = Str(H_keys_padded)], {}),
     Header([MergedCells EXCEPT ![17] = Str(H_Default_Records)], {<<10, 11>>}),
     Header([MergedCells EXCEPT ![16] = Str(H_Default_Records)], {<<10, 11>>, <<16, 17>>}),
     Header([PlainCells EXCEPT ![16] = None], {<<16, 17>>}),
     Header([PlainCells EXCEPT ![2] = None], {}),
     Header([PlainCells EXCEPT ![11] = None], {}),
     Header([PlainCells EXCEPT ![15] = None], {}),
     Header([PlainCells EXCEPT ![4] = None, ![12] = Str(H_Comments)], {}),
     Header([PlainCells EXCEPT ![1] = None], {})}

\* the sheet of a template: five rows above the header row, the header row,
\* TEMPLATE_CAP numbered data rows and footer rows below them
TemplateSheet(header, footers) ==
    LET width == Len(header.cells)
        label(text) == [c \in 1..width |-> IF c = 1 THEN Str(text) ELSE None]
        above == <<BlankRow(width), BlankRow(width), label(L_Table_Name),
                   label(L_Description), BlankRow(width)>>
        data == [k \in 1..TEMPLATE_CAP |->
                    [c \in 1..width |->
                        IF c = 1 THEN Str(IntToText(k))
                        ELSE IF c = width THEN Str("-") ELSE None]]
        foot == [k \in 1..footers |->
                    [c \in 1..width |->
                        IF c = 1 THEN Str(L_Notes)
                        ELSE IF c = 2 THEN Str("Generated from the template") ELSE None]]
        at == Len(above) + 1
    IN [cells |-> above \o <<header.cells>> \o data \o foot,
        merged |-> {[min_row |-> at, max_row |-> at, min_col |-> rng[1], max_col |-> rng[2]] :
                        rng \in header.ranges},
        style |-> [k \in 1..Len(above) |-> NoStyle]
                  \o <<[look |-> "header", number_format |-> "General"]>>
                  \o [k \in 1..TEMPLATE_CAP |->
                        IF k = 1 THEN [look |-> "first", number_format |-> "@"]
                        ELSE [look |-> "data", number_format |-> "General"]]
                  \o [k \in 1..footers |-> [look |-> "footer", number_format |-> "General"]]]

\* a field dict as parse_dez_file builds it, its texts as the sink copies them
SinkField(i) ==
    [name |-> Str("attr_" \o ToString(i)),
     description |-> Str(IF i % 2 = 0 THEN "" ELSE "about " \o ToString(i)),
     datatype |-> Str(IF i % 2 = 0 THEN "INT64" ELSE "STRING"),
     sourced |-> i % 2 = 1,
     not_null |-> i % 3 = 1,
     src_table |-> Str("T" \o ToString(i)),
     src_attr |-> Str("c" \o ToString(i)),
     def_val |-> Str(IF i % 2 = 0 THEN "-1" ELSE "\"\""),
     def_m1 |-> Str(IF i % 2 = 0 THEN "-1" ELSE "\"\""),
     def_m2 |-> Str(IF i % 2 = 0 THEN "-2" ELSE "\"\""),
     key_type |-> Str(IF i = 1 THEN "PRIMARY" ELSE IF i % 2 = 0 THEN "FOREIGN" ELSE ""),
     referenced_dimension |-> Str(IF i % 2 = 0 THEN "Party" ELSE ""),
     clustering |-> Str(""),
     partitioning |-> Str(IF i = 1 THEN "Y" ELSE "")]

SinkEntity(ent_name, n) ==
    [name |-> ent_name, description |-> Str("Orders placed"),
     fields |-> [i \in 1..n |-> SinkField(i)]]

\* few fields on every template, many fields on the templates that pass
WriteCases ==
    {[template |-> TemplateSheet(h, f), entity |-> SinkEntity(nm, n)] :
        h \in GoodHeaders \cup OddHeaders, f \in {0, 1}, nm \in {None, Str("Order")},
        n \in 0..MaxExtra}
    \cup {[template |-> TemplateSheet(Header(MergedCells, {<<10, 11>>}), 1),
           entity |-> SinkEntity(Str("Order"), n)] :
            n \in TEMPLATE_CAP..(TEMPLATE_CAP + MaxExtra)}

\* parse_dez_file is not running
ParserIdle ==
    /\ doc = [ents |-> <<>>, rels |-> <<>>]
    /\ pc = "none"
    /\ id2name = EmptyDict
    /\ fk_for_entity = EmptyDict
    /\ r = 0
    /\ e = 0
    /\ entities = <<>>
    /\ call = 0
    /\ first = <<>>
    /\ other = NoFrame

InitWrite ==
    /\ ParserIdle
    /\ MainIdle
    /\ ToolsIdle
    /\ \E case \in WriteCases : template = case.template /\ entity = case.entity
    /\ ws = <<>>
    /\ hdr_row = 0
    /\ cmap = EmptyDict
    /\ idx = 0
    /\ wpc = "load"
    /\ err = <<>>
    /\ out = <<>>

SpecWrite == InitWrite /\ [][NextWrite]_vars

(***************************************************************************)
(* The claims about write_entity, read on the saved sheet                  *)
(***************************************************************************)
\* the columns of the header row of sh that read as header h once normalized
ColumnsOf(sh, hdr, h) ==
    {c \in 1..MaxColumnOf(sh) :
        /\ Truthy(ValueAt(sh, hdr, c))
        /\ Lower(Strip(ValueAt(sh, hdr, c)[1])) = Lower(Strip(h))}

\* the headers of HDRS that no cell of the header row of sh reads as
Lacking(sh, hdr) == {k \in DOMAIN HDRS : ColumnsOf(sh, hdr, HDRS[k]) = {}}

\* the column the values of logical key k go to: the last one reading as it
MappedColumn(sh, hdr, k) == MaxOf(ColumnsOf(sh, hdr, HDRS[k]))

\* the rows by which the sheet has to grow for n fields
ExtraRows(n) == IF n > TEMPLATE_CAP THEN n - TEMPLATE_CAP ELSE 0

\* the columns the values of the 14 logical keys go to
MappedColumns(sh, hdr) == {MappedColumn(sh, hdr, k) : k \in DOMAIN HDRS}

\* the cells the entity record supplies: B3, B4 and, in the rows of its n
\* fields, the columns cols
Supplied(row, col, hdr, n, cols) ==
    \/ col = 2 /\ row \in {3, 4}
    \/ row \in (hdr + 1)..(hdr + n) /\ col \in cols

(***************************************************************************)
(* C16: rows and growth                                                    *)
(***************************************************************************)
\* C16: in the saved sheet field i (0-based) is on data row first_data_row + i,
\* for every i < n; for n over the 500 pre-provisioned rows the sheet has
\* n - 500 rows more, and every row of the template below the pre-provisioned
\* block is found unchanged n - 500 rows further down.
C16_RowsAndGrowth ==
    wpc = "saved" =>
        LET n == Len(entity.fields)
            top == hdr_row + 1
            below == top + TEMPLATE_CAP
        IN /\ \A i \in 0..(n - 1) :
                /\ out.sheet.cells[top + i][MappedColumn(out.sheet, hdr_row, "name")]
                      = entity.fields[i + 1].name
                /\ out.sheet.cells[top + i][MappedColumn(out.sheet, hdr_row, "desc")]
                      = entity.fields[i + 1].description
                /\ out.sheet.cells[top + i][MappedColumn(out.sheet, hdr_row, "src_t")]
                      = entity.fields[i + 1].src_table
           /\ MaxRowOf(out.sheet) = MaxRowOf(template) + ExtraRows(n)
           /\ \A row \in below..MaxRowOf(template) :
                out.sheet.cells[row + ExtraRows(n)] = template.cells[row]

\* a sheet has been saved for two fields more than the pre-provisioned rows,
\* with the footer of the template below the last of them
C16_Witness ==
    /\ wpc = "saved"
    /\ Len(entity.fields) = TEMPLATE_CAP + 2
    /\ MaxRowOf(template) = hdr_row + TEMPLATE_CAP + 1
    /\ ValueAt(out.sheet, hdr_row + TEMPLATE_CAP + 3, 2) = Str("Generated from the template")

(***************************************************************************)
(* C17: the cells write_entity leaves alone                                *)
(***************************************************************************)
\* C17 as stated: every cell of the saved sheet other than B3, B4 and the 14
\* mapped columns of the n field rows has the value it has in the template,
\* the cells of the header row included.
C17_OnlySuppliedCellsChange ==
    wpc = "saved" =>
        LET n == Len(entity.fields)
            cols == MappedColumns(out.sheet, hdr_row)
        IN \A row \in 1..MaxRowOf(out.sheet), col \in 1..MaxColumnOf(out.sheet) :
              ~Supplied(row, col, hdr_row, n, cols)
                  => ValueAt(out.sheet, row, col) = ValueAt(template, row, col)

\* the row of the template that a row of the saved sheet comes from, 0 for an
\* inserted row
OriginRow(row, hdr, n) ==
    IF row < hdr + 1 + TEMPLATE_CAP THEN row
    ELSE IF row < hdr + 1 + TEMPLATE_CAP + ExtraRows(n) THEN 0
    ELSE row - ExtraRows(n)

\* C17: outside the header row, whose cells unwrap_merged_headers may rewrite,
\* every cell of the saved sheet other than B3, B4 and the 14 mapped columns
\* of the n field rows has the value of the template cell it comes from: the
\* cell at the same place, or n - 500 rows higher for the rows moved down by
\* the growth of the sheet; the other cells of an inserted row are empty.
C17_FrameOutsideHeaderRow ==
    wpc = "saved" =>
        LET n == Len(entity.fields)
            cols == MappedColumns(out.sheet, hdr_row)
        IN \A row \in 1..MaxRowOf(out.sheet), col \in 1..MaxColumnOf(out.sheet) :
              (row # hdr_row /\ ~Supplied(row, col, hdr_row, n, cols))
                  => ValueAt(out.sheet, row, col) =
                        (IF OriginRow(row, hdr_row, n) = 0 THEN None
                         ELSE ValueAt(template, OriginRow(row, hdr_row, n), col))

\* a sheet has been saved whose header row differs from the template's, with
\* the numbers of its data rows as in the template
C17_Witness ==
    /\ wpc = "saved"
    /\ Len(entity.fields) = 2
    /\ out.sheet.cells[hdr_row] # template.cells[hdr_row]
    /\ \A i \in 1..2 : out.sheet.cells[hdr_row + i][1] = template.cells[hdr_row + i][1]

(***************************************************************************)
(* C19: unique header texts                                                *)
(***************************************************************************)
\* C19 as stated: once unwrap_merged_headers has run, every non-empty cell of
\* the header row has a text different from that of every other cell of the
\* row.
C19_HeaderTextsUnique ==
    wpc \in {"validate", "grow", "rows", "saved"} =>
        \A c1, c2 \in 1..MaxColumnOf(ws) :
            (c1 # c2 /\ Truthy(ValueAt(ws, hdr_row, c1)))
                => ValueAt(ws, hdr_row, c1) # ValueAt(ws, hdr_row, c2)

RECURSIVE split(_)
split(t) ==
    IF \E i \in 1..Len(t) : t[i] = ","
    THEN LET c == CHOOSE i \in 1..Len(t) : t[i] = "," /\ \A j \in 1..(i - 1) : t[j] # ","
         IN <<SubSeq(t, 1, c - 1)>> \o split(SubSeq(t, c + 1, Len(t)))
    ELSE <<t>>

\* str.isdigit() on ASCII text
isdigit(t) ==
    Len(t) > 0 /\ \A i \in 1..Len(t) : t[i] \in {"0", "1", "2", "3", "4", "5", "6", "7", "8", "9"}

\* int(t) of a text of digits
RECURSIVE int(_)
int(t) ==
    IF Len(t) = 0 THEN 0
    ELSE 10 * int(SubSeq(t, 1, Len(t) - 1))
         + (CHOOSE n \in 0..9 : IntToText(n) = <<t[Len(t)]>>)

\* lines 82-88: the set of 0-based indices picked
Picked(parts, names) ==
    {int(Strip(parts[p])) - 1 : p \in {q \in 1..Len(parts) :
        /\ isdigit(Strip(parts[q]))
        /\ 1 <= int(Strip(parts[q]))
        /\ int(Strip(parts[q])) <= Len(names)}}

\* sorted(picked)
RECURSIVE sorted(_)
sorted(set) ==
    IF set = {} THEN <<>>
    ELSE LET least == CHOOSE x \in set : \A y \in set : x <= y
         IN <<least>> \o sorted(set \ {least})

\* line 68
NamesOf(ents) == [i \in 1..Len(ents) |-> ents[i].name]

\* lines 78-89: selected from the stripped answer
Selection(answer, names) ==
    IF Len(answer) = 0 THEN <<>>
    ELSE LET order == sorted(Picked(split(answer), names))
         IN [i \in 1..Len(order) |-> names[order[i] + 1]]

\* line 35: ent["name"] in selected
InSelected(name, sel) == \E i \in 1..Len(sel) : sel[i] = name

\* lines 63-64: --entity flags given
UseFlags ==
    /\ mpc = "start"
    /\ \E flags \in {<<Str(N_Order)>>, <<Str(N_Party), Str(N_Order)>>, <<Str(N_balance)>>} :
          selected' = flags
    /\ mpc' = "main"
    /\ UNCHANGED <<choice, exported, ent_at, parserVars, writerVars, toolVars>>

\* lines 67-68: no flags, the entities are listed
ListEntities ==
    /\ mpc = "start"
    /\ parse_dez_file(doc).ok
    /\ entities' = parse_dez_file(doc).val
    /\ mpc' = "prompt"
    /\ UNCHANGED <<choice, selected, exported, ent_at, writerVars,
                   doc, pc, id2name, fk_for_entity, r, e, call, first, other, toolVars>>

\* the answers typed at the prompt
Answers ==
    {<<>>, <<" ">>, <<"1">>, <<"2">>, <<"1", ",", "2">>, <<"2", ",", " ", "1">>,
     <<"1", ",", "1">>, <<"7">>, <<"x">>, <<"1", ",", "x">>, <<",">>, <<"0">>,
     <<"0", "2">>, <<"-", "1">>, <<"3">>, <<" ", "2", " ">>}

\* lines 76-89
Answer ==
    /\ mpc = "prompt"
    /\ \E typed \in Answers : choice' = Str(Strip(typed))
    /\ selected' = Selection(choice'[1], NamesOf(entities))
    /\ mpc' = "announce"
    /\ UNCHANGED <<exported, ent_at, parserVars, writerVars, toolVars>>

\* line 91: ', '.join(selected) raises TypeError on a name that is None
Announce ==
    /\ mpc = "announce"
    /\ mpc' = IF \E i \in 1..Len(selected) : IsNone(selected[i]) THEN "raised" ELSE "main"
    /\ UNCHANGED <<choice, selected, exported, ent_at, parserVars, writerVars, toolVars>>

\* line 23
MainParse ==
    /\ mpc = "main"
    /\ parse_dez_file(doc).ok
    /\ entities' = parse_dez_file(doc).val
    /\ ent_at' = 0
    /\ mpc' = "export"
    /\ UNCHANGED <<choice, selected, exported, writerVars,
                   doc, pc, id2name, fk_for_entity, r, e, call, first, other, toolVars>>

\* lines 27-37: one iteration of the loop over the entities
ExportNext ==
    /\ mpc = "export"
    /\ ent_at < Len(entities)
    /\ ent_at' = ent_at + 1
    /\ exported' = IF Len(selected) = 0 \/ InSelected(entities[ent_at + 1].name, selected)
                   THEN Append(exported, ent_at + 1)
                   ELSE exported
    /\ UNCHANGED <<choice, selected, mpc, parserVars, writerVars, toolVars>>

\* lines 31, 37: main returns
MainReturn ==
    /\ mpc = "export"
    /\ ent_at = Len(entities)
    /\ mpc' = "done"
    /\ UNCHANGED <<choice, selected, exported, ent_at, parserVars, writerVars, toolVars>>

NextMain ==
    UseFlags \/ ListEntities \/ Answer \/ Announce \/ MainParse \/ ExportNext \/ MainReturn

\* the documents given on the command line
MainEnts ==
    {<<>>,
     <<Ent(Elem(ID_1), Elem(N_Party), Absent, <<Elem(A_a)>>, KeyAttrs, <<>>, <<>>),
       Ent(Elem(ID_2), Elem(N_Order), Absent, <<Elem(A_b)>>, KeyAttrs, <<>>, <<>>)>>,
     <<Ent(Elem(ID_1), Elem(N_Party), Absent, <<Elem(A_a)>>, KeyAttrs, <<>>, <<>>),
       Ent(Elem(ID_2), Elem(N_Party), Absent, <<Elem(A_b)>>, KeyAttrs, <<>>, <<>>)>>,
     <<Ent(Elem(ID_1), Elem(N_Party), Absent, <<Elem(A_a)>>, KeyAttrs, <<>>, <<>>),
       Ent(Elem(ID_2), Absent, Absent, <<Elem(A_b)>>, KeyAttrs, <<>>, <<>>),
       Ent(Elem(ID_9), Elem(N_Order), Absent, <<>>, KeyAttrs, <<>>, <<>>)>>}

MainDocs == {[ents |-> es, rels |-> <<>>] : es \in MainEnts}

InitMain ==
    /\ doc \in MainDocs
    /\ pc = "none"
    /\ id2name = EmptyDict
    /\ fk_for_entity = EmptyDict
    /\ r = 0
    /\ e = 0
    /\ entities = <<>>
    /\ call = 0
    /\ first = <<>>
    /\ other = NoFrame
    /\ WriterIdle
    /\ choice = <<>>
    /\ selected = <<>>
    /\ exported = <<>>
    /\ ent_at = 0
    /\ mpc = "start"
    /\ ToolsIdle

SpecMain == InitMain /\ [][NextMain]_vars

(***************************************************************************)
(* C18: the interactive selection                                          *)
(***************************************************************************)
\* the 1-based indices that appear as entries of the comma-separated answer
EntriesOf(answer, n) ==
    {i \in 1..n : \E entry \in SplitComma(answer) : AllDigits(entry) /\ ToNat(entry) = i}

\* C18 as stated: when main has returned in interactive mode, the entities
\* exported are all the extracted entities for an empty answer, and otherwise
\* exactly those whose 1-based index is an entry of the comma-separated answer;
\* entries that are no valid index select nothing.
C18_ExportedAsAnswered ==
    (mpc = "done" /\ ~IsNone(choice)) =>
        {exported[i] : i \in 1..Len(exported)} =
            (IF Len(choice[1]) = 0 THEN 1..Len(entities)
             ELSE EntriesOf(choice[1], Len(entities)))

(***************************************************************************)
(* C21: foreign-key membership is scoped to the child entity               *)
(***************************************************************************)
\* the document without its k-th relationship
WithoutRel(k) ==
    [doc EXCEPT !.rels = SubSeq(doc.rels, 1, k - 1) \o SubSeq(doc.rels, k + 1, Len(doc.rels))]

\* the key role of every field
KeyRoles(es) ==
    [i \in 1..Len(es) |-> [j \in 1..Len(es[i].fields) |-> es[i].fields[j].key_type]]

\* the entity at place i is the child of the relationship
IsChildOf(i, rel) == TextIn(doc.ents[i].ID) = TextIn(rel.CHILDOBJECTID)

\* C21 as stated: a relationship changes key roles in its child entity only;
\* every field of another entity, and every field of the relationship's parent
\* entity, has the key role returned for the document without that
\* relationship.
C21_ChildOnlyAndParentUntouched ==
    pc = "done" =>
        \A k \in 1..Len(doc.rels) :
            LET rest == KeyRoles(parse_dez_file(WithoutRel(k)).val)
            IN \A i \in 1..Len(entities) :
                  (~IsChildOf(i, doc.rels[k]) \/ i \in ParentsOf(doc.rels[k]))
                      => KeyRoles(entities)[i] = rest[i]

\* C21: a relationship changes key roles in its child entity only: every
\* field of an entity that is not the child of the relationship, its parent
\* entity included when the parent is not the child itself, has the key role
\* returned for the document without that relationship.
C21_ChildOnly ==
    pc = "done" =>
        \A k \in 1..Len(doc.rels) :
            LET rest == KeyRoles(parse_dez_file(WithoutRel(k)).val)
            IN \A i \in 1..Len(entities) :
                  ~IsChildOf(i, doc.rels[k]) => KeyRoles(entities)[i] = rest[i]

\* a relationship from the second entity to the first has made attribute a
\* foreign in the first entity while attribute a of the second, the parent,
\* is not foreign
C21_Witness ==
    /\ pc = "done"
    /\ Len(entities) = 2
    /\ \E k \in 1..Len(doc.rels) :
          /\ IsChildOf(1, doc.rels[k])
          /\ ParentsOf(doc.rels[k]) = {2}
          /\ \E n \in 1..Len(doc.rels[k].PAIRS) : doc.rels[k].PAIRS[n] = Elem(A_a)
    /\ IncludesForeign(entities[1].fields[1])
    /\ entities[1].fields[1].name = entities[2].fields[1].name
    /\ ~IncludesForeign(entities[2].fields[1])

(***************************************************************************)
(* C22: several relationships listing the same foreign-key attribute       *)
(***************************************************************************)
\* the name the parent id of a relationship resolves to: that of the last
\* declaration with this id and a name
ParentNameOf(rel) ==
    TextIn(doc.ents[MaxOf({i \in ParentsOf(rel) : Len(TextIn(doc.ents[i].NAME)) > 0})].NAME)

\* the elements of s at the places of keep, in order
Pick(s, keep) ==
    LET F[i \in 0..Len(s)] ==
            IF i = 0 THEN <<>>
            ELSE IF i \in keep THEN Append(F[i - 1], s[i]) ELSE F[i - 1]
    IN F[Len(s)]

\* the document with, of the relationships of the set among, only the k-th
OnlyOneOf(among, k) ==
    [doc EXCEPT !.rels = Pick(doc.rels, ((1..Len(doc.rels)) \ among) \cup {k})]

\* C22: when several valid relationships with the same child entity list the
\* attribute as foreign key, the referenced entity of the field is the parent
\* name of the last of them in document order, and its key role is the one
\* returned when only one of them, whichever, is present.
C22_LastParentWins ==
    pc = "done" =>
        \A p \in Emitted :
            LET among == ForeignRels(EntAt(p), AttrAt(p))
            IN Cardinality(among) > 1 =>
                  /\ FieldAt(p).referenced_dimension
                        = Str(ParentNameOf(doc.rels[MaxOf(among)]))
                  /\ \A k \in among :
                        parse_dez_file(OnlyOneOf(among, k)).val[p[1]].fields[p[2]].key_type
                            = FieldAt(p).key_type

\* two relationships with the first entity as child list attribute a, the
\* first with parent Party and the last with parent Order, and the field
\* references Order
C22_Witness ==
    /\ pc = "done"
    /\ \E p \in Emitted :
          LET among == ForeignRels(EntAt(p), AttrAt(p))
          IN /\ Cardinality(among) = 2
             /\ ParentNameOf(doc.rels[MinOf(among)]) = N_Party
             /\ ParentNameOf(doc.rels[MaxOf(among)]) = N_Order
             /\ FieldAt(p).referenced_dimension = Str(N_Order)
             /\ IncludesForeign(FieldAt(p))

(***************************************************************************)
(* helpers.py: copy_table                                                  *)
(***************************************************************************)
M_stagehist_table_name ==
    <<"s", "t", "a", "g", "e", "h", "i", "s", "t", " ", "t", "a", "b", "l", "e", " ", "n", "a",
      "m", "e">>

M_staging_table_name ==
    <<"s", "t", "a", "g", "i", "n", "g", " ", "t", "a", "b", "l", "e", " ", "n", "a", "m", "e",
      " ", "/", " ", "s", "t", "a", "t", "i", "c", " ", "d", "a", "t", "a", "s", "e", "t", " ",
      "n", "a", "m", "e">>

M_staging_table_name_xref ==
    <<"s", "t", "a", "g", "i", "n", "g", " ", "t", "a", "b", "l", "e", " ", "n", "a", "m", "e",
      " ", "/", " ", "s", "t", "a", "t", "i", "c", " ", "d", "a", "t", "a", "s", "e", "t", " ",
      "n", "a", "m", "e", " ", "(", "x", "r", "e", "f", " ", "t", "a", "b", ")">>

\* helpers.py lines 5-8
COLUMN_NAME_MAPPING ==
    (M_stagehist_table_name :> M_staging_table_name_xref)
    @@ (M_staging_table_name :> M_staging_table_name_xref)

\* helpers.py lines 34-38: the first of name, "name (2)", "name (3)", ... that
\* is no key of col_map
RECURSIVE FreeName(_, _, _, _)
FreeName(name, original, count, col_map) ==
    IF name \in DOMAIN col_map
    THEN FreeName(Numbered(original, count + 1), original, count + 1, col_map)
    ELSE name

\* helpers.py lines 27-40
RECURSIVE ColumnMapFrom(_, _, _, _)
ColumnMapFrom(sh, header_row, col, col_map) ==
    IF col > MaxColumnOf(sh) THEN col_map
    ELSE LET name == normalize(ValueAt(sh, header_row, col))
         IN ColumnMapFrom(sh, header_row, col + 1,
                          IF Len(name) = 0 THEN col_map
                          ELSE DictSet(col_map, FreeName(name, name, 1, col_map), col))

get_column_map(sh, header_row) == ColumnMapFrom(sh, header_row, 1, EmptyDict)

\* a row taken for blank as soon as one of its cells is
SrcBlank_AnyCell(sh, src_r, cols) ==
    \E name \in DOMAIN cols :
        LET v == ValueAt(sh, src_r, cols[name]) IN IsNone(v) \/ v = Str(<<>>)

\* helpers.py line 57: value in (None, "") for every column of src_cols
SrcBlank(sh, src_r, cols) ==
    \A name \in DOMAIN cols :
        LET v == ValueAt(sh, src_r, cols[name]) IN IsNone(v) \/ v = Str(<<>>)

\* helpers.py line 62
MappedName(src_name) == normalize(Str(DictGet(COLUMN_NAME_MAPPING, src_name, src_name)))

\* helpers.py lines 67-69: the value written and the number format set
WriteCell(sh, at, col, v) ==
    LET n == MaxRowOf(sh)
        grown == IF at <= n THEN sh
                 ELSE [cells |-> sh.cells \o [k \in 1..(at - n) |-> BlankRow(MaxColumnOf(sh))],
                       number_format |-> sh.number_format
                            \o [k \in 1..(at - n) |-> [c \in 1..MaxColumnOf(sh) |-> "General"]]]
    IN [grown EXCEPT !.cells[at][col] = v, !.number_format[at][col] = "General"]

\* helpers.py lines 61-69: the columns of src_cols in the order of the header
\* row, which is the order of insertion into the dict
RECURSIVE CopyCells(_, _, _, _, _, _, _)
CopyCells(src, tgt, src_r, tgt_r, from_cols, to_cols, col) ==
    IF col > MaxColumnOf(src) THEN tgt
    ELSE IF \E name \in DOMAIN from_cols :
                from_cols[name] = col /\ MappedName(name) \in DOMAIN to_cols
    THEN LET src_name == CHOOSE name \in DOMAIN from_cols : from_cols[name] = col
         IN CopyCells(src,
                      WriteCell(tgt, tgt_r, to_cols[MappedName(src_name)],
                                ValueAt(src, src_r, col)),
                      src_r, tgt_r, from_cols, to_cols, col + 1)
    ELSE CopyCells(src, tgt, src_r, tgt_r, from_cols, to_cols, col + 1)

\* helpers.py lines 43-47
CopyBegin ==
    /\ cpc = "start"
    /\ src_cols' = get_column_map(ws_src, src_header_row)
    /\ tgt_cols' = get_column_map(ws_tgt, tgt_header_row)
    /\ copied_rows' = 0
    /\ cpc' = "loop"
    /\ UNCHANGED <<ws_src, ws_tgt, src_header_row, tgt_header_row, tgt_given,
                   legacyVars, parserVars, writerVars, mainVars>>

\* helpers.py lines 50-72: one iteration that copies a row
CopyRow ==
    /\ cpc = "loop"
    /\ src_header_row + 1 + copied_rows <= MaxRowOf(ws_src)
    /\ ~SrcBlank(ws_src, src_header_row + 1 + copied_rows, src_cols)
    /\ ws_tgt' = CopyCells(ws_src, ws_tgt, src_header_row + 1 + copied_rows,
                           tgt_header_row + 1 + copied_rows, src_cols, tgt_cols, 1)
    /\ copied_rows' = copied_rows + 1
    /\ UNCHANGED <<ws_src, src_header_row, tgt_header_row, src_cols, tgt_cols, tgt_given, cpc,
                   legacyVars, parserVars, writerVars, mainVars>>

\* helpers.py lines 54-59, 74: the loop is left
CopyStop ==
    /\ cpc = "loop"
    /\ \/ src_header_row + 1 + copied_rows > MaxRowOf(ws_src)
       \/ SrcBlank(ws_src, src_header_row + 1 + copied_rows, src_cols)
    /\ cpc' = "done"
    /\ UNCHANGED <<ws_src, ws_tgt, src_header_row, tgt_header_row, src_cols, tgt_cols,
                   tgt_given, copied_rows, legacyVars, parserVars, writerVars, mainVars>>

NextCopy == CopyBegin \/ CopyRow \/ CopyStop

\* the longest table below a source header
MaxSrcRows == 3

H_Dependency == <<"D", "e", "p", "e", "n", "d", "e", "n", "c", "y">>
T_old == <<"o", "l", "d">>

\* the header rows of the source sheets: plain with a column without header,
\* the two legacy names of the renamed column, a repeated header, no header
SourceHeaders ==
    {<<Str(H_Dependency), Str(H_Source_Table), Str(H_Comments), None>>,
     <<Str(H_Dependency), Str(M_stagehist_table_name), Str(H_Source_Table),
       Str(M_staging_table_name)>>,
     <<Str(H_Dependency), Str(H_Comments), Str(H_Comments), Str(H_Source_Table)>>,
     <<None, Str(<<>>), None, None>>}

\* the header rows of the target sheets
TargetHeaders ==
    {<<Str(H_Dependency), Str(H_Comments), Str(H_Source_Table)>>,
     <<Str(H_Dependency), Str(M_staging_table_name_xref), Str(H_Comments), Str(H_Comments)>>,
     <<Str(H_Source_Table), Str(Numbered(H_Comments, 2)), Str(H_Comments), Str(H_Comments),
       None>>}

RowKinds == {"full", "partial", "empties", "nones", "stray"}

\* the k-th row of a source table
SourceRow(kind, k, width) ==
    [c \in 1..width |->
        LET v == Str(<<"r">> \o IntToText(k) \o <<"c">> \o IntToText(c))
        IN CASE kind = "full" -> v
             [] kind = "partial" -> IF c = 2 THEN v ELSE None
             [] kind = "empties" -> Str(<<>>)
             [] kind = "nones" -> None
             [] kind = "stray" -> IF c = width THEN v ELSE Str(<<>>)]

\* a source sheet: a blank row, the header row and the rows of the table
SourceSheet(header, kinds) ==
    LET width == Len(header)
    IN [cells |-> <<BlankRow(width), header>>
                  \o [k \in 1..Len(kinds) |-> SourceRow(kinds[k], k, width)],
        number_format |-> [k \in 1..(2 + Len(kinds)) |-> [c \in 1..width |-> "@"]]]

\* a target sheet: two blank rows, the header row and one row of old values
TargetSheet(header) ==
    LET width == Len(header)
    IN [cells |-> <<BlankRow(width), BlankRow(width), header, [c \in 1..width |-> Str(T_old)]>>,
        number_format |-> [k \in 1..4 |-> [c \in 1..width |-> "@"]]]

CopyCases ==
    {[src |-> SourceSheet(header, kinds), tgt |-> TargetSheet(to)] :
        header \in SourceHeaders,
        kinds \in UNION {[1..n -> RowKinds] : n \in 0..MaxSrcRows},
        to \in TargetHeaders}

InitCopy ==
    /\ ParserIdle
    /\ WriterIdle
    /\ MainIdle
    /\ LegacyIdle
    /\ \E case \in CopyCases :
          /\ ws_src = case.src
          /\ ws_tgt = case.tgt
          /\ tgt_given = case.tgt
    /\ src_header_row = 2
    /\ tgt_header_row = 3
    /\ src_cols = EmptyDict
    /\ tgt_cols = EmptyDict
    /\ copied_rows = 0
    /\ cpc = "start"

SpecCopy == InitCopy /\ [][NextCopy]_vars

(***************************************************************************)
(* C23: what copy_table copies                                             *)
(***************************************************************************)
\* the columns of the source header that have a header text
HeaderColumns == {c \in 1..MaxColumnOf(ws_src) : Truthy(ValueAt(ws_src, src_header_row, c))}

\* the k-th row below the source header (from 0) exists and holds a value in
\* one of the header's columns
Filled(k) ==
    /\ src_header_row + 1 + k <= MaxRowOf(ws_src)
    /\ \E c \in HeaderColumns :
          LET v == ValueAt(ws_src, src_header_row + 1 + k, c)
          IN ~IsNone(v) /\ v # Str(<<>>)

\* the length of the maximal run of filled rows directly below the header
RunLength ==
    CHOOSE n \in 0..MaxRowOf(ws_src) : (\A k \in 0..(n - 1) : Filled(k)) /\ ~Filled(n)

\* the source columns whose renamed header, in the column map from_cols of the
\* source header, is the header of target column t in the column map to_cols
SourcesOf(t, from_cols, to_cols) ==
    {from_cols[name] : name \in {x \in DOMAIN from_cols :
        MappedName(x) \in DOMAIN to_cols /\ to_cols[MappedName(x)] = t}}

\* the target sheet holds the run of n rows and is otherwise as given
RunCopied(n, from_cols, to_cols) ==
    LET sources == [t \in 1..MaxColumnOf(ws_tgt) |-> SourcesOf(t, from_cols, to_cols)]
    IN \A at \in 1..MaxRowOf(ws_tgt), t \in 1..MaxColumnOf(ws_tgt) :
          LET k == at - tgt_header_row - 1
          IN IF k \in 0..(n - 1) /\ sources[t] # {}
             THEN ValueAt(ws_tgt, at, t) =
                      ValueAt(ws_src, src_header_row + 1 + k, MaxOf(sources[t]))
             ELSE ValueAt(ws_tgt, at, t) = ValueAt(tgt_given, at, t)

\* C23: copy_table terminates, its loop making at most one iteration per row
\* of the run below the source header and being able to stop as soon as the
\* next row is not a filled one; when it is
\* done it has copied exactly the maximal run of rows directly below the source
\* header that are not entirely blank in the header's columns: row k of the
\* run is in target row tgt_header_row + 1 + k, in every target column that
\* the renamed header of a source column matches (the value of the last such
\* source column), every other target cell is as it was given, and no row
\* at or after the first entirely blank row has been copied.
C23_CopiesTheRun ==
    /\ cpc # "none" => copied_rows <= RunLength
    /\ cpc = "loop" => (ENABLED CopyStop) \/ Filled(copied_rows)
    /\ cpc = "done" =>
          /\ copied_rows = RunLength
          /\ RunCopied(RunLength, get_column_map(ws_src, src_header_row),
                       get_column_map(tgt_given, tgt_header_row))

\* copy_table is done after one row, with a second row blank in the header's
\* columns and a filled one below it left uncopied; two source columns went to
\* one target column and the target has a column that no source header matches
C23_Witness ==
    /\ cpc = "done"
    /\ copied_rows = 1
    /\ MaxRowOf(ws_src) = src_header_row + 3
    /\ ~Filled(1)
    /\ Filled(2)
    /\ ValueAt(ws_tgt, tgt_header_row + 1, 1) = ValueAt(ws_src, src_header_row + 1, 1)
    /\ ValueAt(ws_tgt, tgt_header_row + 1, 1) # ValueAt(tgt_given, tgt_header_row + 1, 1)
    /\ \E t \in 1..MaxColumnOf(ws_tgt) : SourcesOf(t, src_cols, tgt_cols) = {}
    /\ \E t \in 1..MaxColumnOf(ws_tgt) : Cardinality(SourcesOf(t, src_cols, tgt_cols)) = 2

(***************************************************************************)
(* inputs/DezignToMapping.py: the version and the diagram prompts          *)
(***************************************************************************)
\* the most answers typed at the two prompts together
MaxAsked == 2

\* lines 111, 113, 141, 143: any(v in d for d in dict), d running over the
\* keys, which are texts: v is a substring of a key
AnyContains(v, keys) == \E i \in 1..Len(keys) : Contains(v, keys[i])

\* v is a key of the dict
IsKey(v, keys) == \E i \in 1..Len(keys) : keys[i] = v

\* lines 135-137: the keys "1", "2", ... of n diagrams
DiagramKeys(n) == [i \in 1..n |-> IntToText(i)]

\* the answers typed at the prompts
LegacyAnswers == {<<>>, <<"0">>, <<"1">>, <<"2">>, <<"x">>, <<"1", "0">>, <<"1", ".", "0">>}

\* lines 112, 113: an answer is read while no key contains v_version
AskVersion ==
    /\ lpc = "version"
    /\ ~AnyContains(v_version, dictVersions)
    /\ asked < MaxAsked
    /\ \E typed \in LegacyAnswers : v_version' = typed
    /\ asked' = asked + 1
    /\ UNCHANGED <<dictVersions, dictDiagrams, v_diagram, lpc,
                   copyVars, parserVars, writerVars, mainVars>>

\* line 111: the loop is left
VersionChosen ==
    /\ lpc = "version"
    /\ AnyContains(v_version, dictVersions)
    /\ lpc' = "analysis"
    /\ UNCHANGED <<dictVersions, dictDiagrams, v_version, v_diagram, asked,
                   copyVars, parserVars, writerVars, mainVars>>

\* lines 118-137: the version whose number is v_version is analysed and its
\* diagrams are listed; without such a version nothing is analysed
Analyse ==
    /\ lpc = "analysis"
    /\ IF IsKey(v_version, dictVersions)
       THEN /\ \E n \in {0, 2, 10} : dictDiagrams' = DiagramKeys(n)
            /\ lpc' = "diagram"
       ELSE /\ dictDiagrams' = dictDiagrams
            /\ lpc' = "skipped"
    /\ UNCHANGED <<dictVersions, v_version, v_diagram, asked,
                   copyVars, parserVars, writerVars, mainVars>>

\* lines 142, 143: an answer is read while no key contains v_diagram
AskDiagram ==
    /\ lpc = "diagram"
    /\ ~AnyContains(v_diagram, dictDiagrams)
    /\ asked < MaxAsked
    /\ \E typed \in LegacyAnswers : v_diagram' = typed
    /\ asked' = asked + 1
    /\ UNCHANGED <<dictVersions, dictDiagrams, v_version, lpc,
                   copyVars, parserVars, writerVars, mainVars>>

\* lines 141, 145: the loop is left and dictDiagrams[v_diagram] is looked up,
\* a KeyError when v_diagram is no key
DiagramChosen ==
    /\ lpc = "diagram"
    /\ AnyContains(v_diagram, dictDiagrams)
    /\ lpc' = IF IsKey(v_diagram, dictDiagrams) THEN "found" ELSE "raised"
    /\ UNCHANGED <<dictVersions, dictDiagrams, v_version, v_diagram, asked,
                   copyVars, parserVars, writerVars, mainVars>>

NextLegacy == AskVersion \/ VersionChosen \/ Analyse \/ AskDiagram \/ DiagramChosen

\* the version numbers of the documents
VersionLists ==
    {<<>>, <<<<"0">>>>, <<<<"1">>, <<"2">>>>, <<<<"1", ".", "0">>, <<"1", ".", "1">>>>,
     <<<<"0">>, <<"1", "0">>>>}

InitLegacy ==
    /\ ParserIdle
    /\ WriterIdle
    /\ MainIdle
    /\ CopyIdle
    /\ dictVersions \in VersionLists
    /\ dictDiagrams = <<>>
    /\ v_version = <<"-", "1">>
    /\ v_diagram = <<"-", "1">>
    /\ asked = 0
    /\ lpc = "version"

SpecLegacy == InitLegacy /\ [][NextLegacy]_vars

(***************************************************************************)
(* C24: the prompts keep asking until an existing entry is named           *)
(***************************************************************************)
\* C24 as stated: whenever the version prompt loop has been left, v_version
\* is one of the listed version keys, and whenever the diagram prompt loop has
\* been left, v_diagram is one of the listed diagram keys, so that the lookup
\* of the diagram does not fail.
C24_SelectedIsListed ==
    /\ lpc \in {"analysis", "skipped", "diagram", "found", "raised"}
          => IsKey(v_version, dictVersions)
    /\ lpc \in {"found", "raised"} => IsKey(v_diagram, dictDiagrams)
    /\ lpc # "raised"

====
